---------------------------- MODULE Spec2Model ----------------------------
(***************************************************************************)
(* Verification model of the beatfox acoustic simulator core:              *)
(*   - AudioSource   (src/experiments/src/AudioSource.h)                   *)
(*   - AudioOutput   (src/experiments/src/AudioOutput.cpp)                 *)
(*   - WaveSimulation (src/experiments/src/WaveSimulation.cpp)             *)
(*                                                                         *)
(* Numbers.  The code computes in 32-bit float; the model computes in      *)
(* fixed point with truncating division:                                   *)
(*   pressure            1/100 Pa   (10 Pa = 1000)                         *)
(*   PCM sample, gains   1/1000     (1.0 = 1000)                           *)
(*   damping             1/10000    (0.997 = 9970)                         *)
(*   wall reflection     1/100      (0.85 = 85)                            *)
(*   time                microseconds, a sub-step being the pair           *)
(*                       <<dtFrame, numSteps>> = dtFrame/numSteps us       *)
(*   length              micrometres (dx = 8600)                           *)
(***************************************************************************)
EXTENDS Integers, Sequences, FiniteSets

VARIABLES
    \* ---- AudioSource (one source on its own) ----
    source,        \* the AudioSource object
    srcCall,       \* history: the last call on it, its arguments and what it saw
    \* ---- AudioOutput ----
    audioBuffer,        \* ring buffer of pressure samples (slot k is audioBuffer[k+1])
    bufferWritePos,
    bufferReadPos,
    sampleRate,
    previousPressure,
    muted,
    deviceInitialized,
    device,             \* the device pointer is non-null
    deviceStarted,      \* the current device has been started
    orphanStarted,      \* a started device replaced by a later initialize()
    memFault,           \* a call indexed audioBuffer outside its length
    submits,            \* number of submitPressureSample calls so far
    fresh,              \* history: the slots holding a sample written and not yet read
    cb,                 \* history: the last audioCallback, what it found and output
    \* ---- WaveSimulation ----
    sim,                \* the WaveSimulation object
    calls,              \* history: the calls made on it
    \* ---- SimulationEngine ----
    engine,             \* the main loop: lastFrameTime and what the last frame did
    \* ---- SimulationController ----
    controller,         \* its SimulationState, and history: the commands processed
    \* ---- the two threads of AudioOutput ----
    threads,            \* who holds bufferMutex and where each thread is
    \* ---- the InputHandler ----
    input               \* mouse state, pendingCommands, and history: the
                        \* last mouse event handled

srcVars == <<source, srcCall>>
waveVars == <<sim, calls>>
engVars == <<engine>>
ctrlVars == <<controller>>
mtxVars == <<threads>>
inVars == <<input>>
ringVars == <<audioBuffer, bufferWritePos, bufferReadPos, sampleRate,
              previousPressure, muted, deviceInitialized, device,
              deviceStarted, orphanStarted, memFault, submits, fresh, cb>>
vars == <<source, srcCall, audioBuffer, bufferWritePos, bufferReadPos,
          sampleRate, previousPressure, muted, deviceInitialized, device,
          deviceStarted, orphanStarted, memFault, submits, fresh, cb,
          sim, calls, engine, controller, threads, input>>

----------------------------------------------------------------------------
(* Arithmetic helpers *)

Max(a, b) == IF a >= b THEN a ELSE b
Min(a, b) == IF a <= b THEN a ELSE b

\* C++ division of floats, in fixed point: truncation toward zero.
Quot(a, b) == IF a >= 0 THEN a \div b ELSE -((-a) \div b)

\* std::round of the non-negative quotient a/b (half away from zero).
RoundDiv(a, b) == (2 * a + b) \div (2 * b)

\* std::ceil of the non-negative quotient a/b.
CeilDiv(a, b) == (a + b - 1) \div b

----------------------------------------------------------------------------
(* AudioSample: immutable PCM data and sample rate *)

\* The samples the model plays, by name.  Data are in 1/1000 of full scale.
SampleNames == {"tick", "burst"}

SampleData(name) ==
    IF name = "tick" THEN <<1000, -500, 250>>
    ELSE <<800, 800, -400, 200, 100>>

SampleRateOf(name) == IF name = "tick" THEN 48000 ELSE 192000

getLength(name) == Len(SampleData(name))

\* AudioSample::getSample: 0 past the end.
getSample(name, index) ==
    IF index >= getLength(name) THEN 0 ELSE SampleData(name)[index + 1]

----------------------------------------------------------------------------
(* AudioSource *)

\* 10^(dB/20) in 1/1000, for the volumes the model uses.
getAmplitude(volumeDb) ==
    CASE volumeDb = 0 -> 1000
      [] volumeDb = -6 -> 501
      [] volumeDb = -20 -> 100
      [] OTHER -> 0

\* AudioSource constructor.
NewSource(sample, x, y, volumeDb, loop) ==
    [sample |-> sample, x |-> x, y |-> y, volumeDb |-> volumeDb,
     loop |-> loop, playing |-> FALSE, playbackPosition |-> 0]

play(s) == [s EXCEPT !.playing = TRUE, !.playbackPosition = 0]
stop(s) == [s EXCEPT !.playing = FALSE, !.playbackPosition = 0]
pause(s) == [s EXCEPT !.playing = FALSE]
resumeRestartBug(s) == [s EXCEPT !.playing = TRUE, !.playbackPosition = 0]
resume(s) == [s EXCEPT !.playing = TRUE]
setLoop(s, shouldLoop) == [s EXCEPT !.loop = shouldLoop]
setPosition(s, newX, newY) == [s EXCEPT !.x = newX, !.y = newY]

\* samplesPerStep = max(1, (int) round(sampleRate * dt)), dt = dt[1]/dt[2] us.
SamplesPerStep(rate, dt) == Max(1, RoundDiv(rate * dt[1], dt[2] * 1000000))

\* One pass of the summing loop of getCurrentSample.  st carries the locals
\* (i, sum, samplesRead), the two members the loop writes (playing,
\* playbackPosition), whether the loop has hit its break, and the play head
\* after each iteration (heads, history only).
LoopBodyWrapBug(s, st) ==
    LET pos == st.playbackPosition + 1
        atEnd == pos >= getLength(s.sample)
    IN  [st EXCEPT !.sum = @ + getSample(s.sample, st.playbackPosition),
                   !.samplesRead = @ + 1,
                   !.i = @ + 1,
                   !.playbackPosition = pos,
                   !.playing = IF atEnd /\ ~s.loop THEN FALSE ELSE @,
                   !.broke = atEnd /\ ~s.loop,
                   !.heads = Append(@, pos)]

LoopBodyNoStopBug(s, st) ==
    LET pos == st.playbackPosition + 1
        atEnd == pos >= getLength(s.sample)
    IN  [st EXCEPT !.sum = @ + getSample(s.sample, st.playbackPosition),
                   !.samplesRead = @ + 1,
                   !.i = @ + 1,
                   !.playbackPosition = IF atEnd /\ s.loop THEN 0 ELSE pos,
                   !.broke = atEnd /\ ~s.loop,
                   !.heads = Append(@, IF atEnd /\ s.loop THEN 0 ELSE pos)]

LoopBody(s, st) ==
    LET pos == st.playbackPosition + 1
        atEnd == pos >= getLength(s.sample)
    IN  [st EXCEPT !.sum = @ + getSample(s.sample, st.playbackPosition),
                   !.samplesRead = @ + 1,
                   !.i = @ + 1,
                   !.playbackPosition = IF atEnd /\ s.loop THEN 0 ELSE pos,
                   !.playing = IF atEnd /\ ~s.loop THEN FALSE ELSE @,
                   !.broke = atEnd /\ ~s.loop,
                   !.heads = Append(@, IF atEnd /\ s.loop THEN 0 ELSE pos)]

RECURSIVE SumLoop(_, _, _)
SumLoop(s, n, st) ==
    IF st.i < n /\ st.playbackPosition < getLength(s.sample) /\ ~st.broke
    THEN SumLoop(s, n, LoopBody(s, st))
    ELSE st

\* AudioSource::getCurrentSample(dt): the source afterwards, the pressure
\* returned (1/100 Pa) and the loop's history.
getCurrentSample(s, dt) ==
    IF ~s.playing
    THEN [src |-> s, value |-> 0, samplesRead |-> 0, heads |-> <<>>,
          samplesPerStep |-> 0]
    ELSE LET n == SamplesPerStep(SampleRateOf(s.sample), dt)
             st == SumLoop(s, n,
                       [i |-> 0, sum |-> 0, samplesRead |-> 0,
                        playing |-> s.playing,
                        playbackPosition |-> s.playbackPosition,
                        broke |-> FALSE, heads |-> <<>>])
             averageSample == IF st.samplesRead > 0
                              THEN Quot(st.sum, st.samplesRead) ELSE 0
             \* average/1000 * amplitude/1000 * 20 Pa, in 1/100 Pa
             value == Quot(averageSample * getAmplitude(s.volumeDb), 500)
         IN  [src |-> [s EXCEPT !.playing = st.playing,
                                !.playbackPosition = st.playbackPosition],
              value |-> value, samplesRead |-> st.samplesRead,
              heads |-> st.heads, samplesPerStep |-> n]


\* The source of the specifications that do not exercise it.
SourceIdle ==
    /\ source = NewSource("tick", 1, 1, 0, TRUE)
    /\ srcCall = [op |-> "new", before |-> NewSource("tick", 1, 1, 0, TRUE),
                  heads |-> <<>>, value |-> 0, samplesPerStep |-> 0]

----------------------------------------------------------------------------
(* WaveSimulation: the grid, the active region, the presets                *)

\* Grid size (constructor arguments) and the cells, row-major.
width == 5
height == 4
Cells == 0 .. (width * height - 1)
index(x, y) == y * width + x
CellX(c) == c % width
CellY(c) == c \div width

\* The test every loop of the solver uses for "interior cell".
Interior(px, py) == px > 0 /\ px < width - 1 /\ py > 0 /\ py < height - 1

\* A field as the array of values the code stores: the function f, with
\* every cell's value computed once.
Stored(f) == IF f = f THEN f ELSE f

\* A field of the given value in every cell (std::vector::resize / std::fill).
Fill(v) == [c \in Cells |-> v]

\* Constructor defaults.  Sound speed in m/s, dx in micrometres, CFL_SAFETY
\* in 1/1000.
CtorSoundSpeed == 343
dx == 8600
CFL_SAFETY == 600

\* DampingPreset::fromType: damping in 1/10000, wall reflection in 1/100.
PresetTypes == {"REALISTIC", "VISUALIZATION", "ANECHOIC"}
fromType(type) ==
    CASE type = "REALISTIC" ->
            [type |-> type, damping |-> 9970, wallReflection |-> 85]
      [] type = "VISUALIZATION" ->
            [type |-> type, damping |-> 9998, wallReflection |-> 98]
      [] OTHER ->
            [type |-> "ANECHOIC", damping |-> 9980, wallReflection |-> 0]

\* ActiveRegion() and ActiveRegion::clear().
NewActiveRegion ==
    [minX |-> 0, maxX |-> 0, minY |-> 0, maxY |-> 0, hasActivity |-> FALSE]
ActiveRegionClear(ar) == [ar EXCEPT !.hasActivity = FALSE]

\* WaveSimulation::expandActiveRegion.
expandActiveRegionResetBug(ar, centerX, centerY, radius) ==
    [minX |-> Max(0, centerX - radius),
     maxX |-> Min(width - 1, centerX + radius),
     minY |-> Max(0, centerY - radius),
     maxY |-> Min(height - 1, centerY + radius),
     hasActivity |-> TRUE]

expandActiveRegion(ar, centerX, centerY, radius) ==
    IF ~ar.hasActivity
    THEN [minX |-> Max(0, centerX - radius),
          maxX |-> Min(width - 1, centerX + radius),
          minY |-> Max(0, centerY - radius),
          maxY |-> Min(height - 1, centerY + radius),
          hasActivity |-> TRUE]
    ELSE [minX |-> Max(0, Min(ar.minX, centerX - radius)),
          maxX |-> Min(width - 1, Max(ar.maxX, centerX + radius)),
          minY |-> Max(0, Min(ar.minY, centerY - radius)),
          maxY |-> Min(height - 1, Max(ar.maxY, centerY + radius)),
          hasActivity |-> TRUE]

\* WaveSimulation::growActiveRegionForFrame; dt in microseconds.
\* expansion = ceil(2 * soundSpeed * dt / dx) cells.
growActiveRegionForFrame(ar, dt, speed) ==
    IF ~ar.hasActivity THEN ar
    ELSE LET expansion == CeilDiv(2 * speed * dt, dx)
         IN  [ar EXCEPT !.minX = Max(0, ar.minX - expansion),
                        !.maxX = Min(width - 1, ar.maxX + expansion),
                        !.minY = Max(0, ar.minY - expansion),
                        !.maxY = Min(height - 1, ar.maxY + expansion)]

\* WaveSimulation::WaveSimulation(width, height).  metalAvailable is what
\* metalBackend.initialize() returned, and isAvailable() afterwards;
\* metalFrameFails says that the device has stopped working, so that the
\* backend's next executeFrame ends in an error.
NewSimulation(metalAvailable) ==
    [pressure |-> Fill(0), pressurePrev |-> Fill(0), pressureNext |-> Fill(0),
     obstacles |-> Fill(0),
     soundSpeed |-> CtorSoundSpeed,
     damping |-> fromType("REALISTIC").damping,
     wallReflection |-> fromType("REALISTIC").wallReflection,
     currentPreset |-> fromType("REALISTIC"),
     listenerX |-> width \div 2, listenerY |-> height \div 2,
     listenerEnabled |-> FALSE, listenerSampleBuffer |-> <<>>,
     audioSources |-> <<>>,
     activeRegion |-> NewActiveRegion,
     useGPU |-> metalAvailable, metalAvailable |-> metalAvailable,
     metalFrameFails |-> FALSE]

----------------------------------------------------------------------------
(* WaveSimulation: one frame.  A sub-step dt is the pair <<dt_frame,       *)
(* numSteps>>, meaning dt_frame/numSteps microseconds.                     *)

\* numSteps = ceil(dt_frame / (CFL_SAFETY * dx / soundSpeed)).
NumStepsFloorBug(dtFrame, speed) ==
    Max(1, (dtFrame * speed * 1000) \div (CFL_SAFETY * dx))

NumSteps(dtFrame, speed) ==
    CeilDiv(dtFrame * speed * 1000, CFL_SAFETY * dx)

\* soundSpeed * dt / dx, in 1/1000.
Cfl(dt, speed) == (speed * dt[1] * 1000) \div (dt[2] * dx)

\* c2_dt2_dx2 = (soundSpeed * dt / dx)^2, in 1/1000.
C2Dt2Dx2(dt, speed) == (Cfl(dt, speed) * Cfl(dt, speed)) \div 1000

\* The listener part of updateStep: push getListenerPressure() only when
\* the listener is enabled.
ListenerCaptureAlways(buffer, enabled, lx, ly, field) ==
    Append(buffer,
           IF lx < 0 \/ lx >= width \/ ly < 0 \/ ly >= height
           THEN 0 ELSE field[index(lx, ly)])

ListenerCapture(buffer, enabled, lx, ly, field) ==
    IF enabled
    THEN Append(buffer,
                IF lx < 0 \/ lx >= width \/ ly < 0 \/ ly >= height
                THEN 0 ELSE field[index(lx, ly)])
    ELSE buffer

\* The source loop at the head of updateStep, source k onwards: each
\* playing source is sampled (its play head moves) and its value is added
\* to the current field at its cell if that is interior and not an obstacle.
RECURSIVE InjectSources(_, _, _)
InjectSources(st, dt, k) ==
    IF k > Len(st.audioSources) THEN st
    ELSE LET s == st.audioSources[k]
         IN  IF ~s.playing THEN InjectSources(st, dt, k + 1)
             ELSE LET r == getCurrentSample(s, dt)
                      hit == /\ Interior(r.src.x, r.src.y)
                             /\ st.obstacles[index(r.src.x, r.src.y)] = 0
                      c == index(r.src.x, r.src.y)
                  IN  InjectSources(
                        [st EXCEPT !.audioSources[k] = r.src,
                                   !.pressure = IF hit
                                       THEN [@ EXCEPT ![c] = @ + r.value]
                                       ELSE @],
                        dt, k + 1)

\* The interior loop of updateStep: the cells it writes in pressureNext.
Stencil(p, prev, next, obst, damp, dt, speed) ==
    [c \in Cells |->
        IF ~Interior(CellX(c), CellY(c)) THEN next[c]
        ELSE IF obst[c] # 0 THEN 0
        ELSE LET laplacian == p[c + 1] + p[c - 1] + p[c + width]
                              + p[c - width] - 4 * p[c]
             IN  Quot(2 * damp * p[c], 10000) - Quot(damp * prev[c], 10000)
                 + Quot(Quot(damp * C2Dt2Dx2(dt, speed), 1000) * laplacian,
                        10000)]

IsCorner(c) ==
    /\ CellX(c) \in {0, width - 1}
    /\ CellY(c) \in {0, height - 1}

\* The absorbing-wall branch: edges from the current field, corners 0.
AbsorbingWalls(p, next, dt, speed) ==
    LET absorption == Min(1000, Cfl(dt, speed))
        Edge(c, inner) == p[c] - Quot(absorption * (p[c] - p[inner]), 1000)
    IN  [c \in Cells |->
            IF IsCorner(c) THEN 0
            ELSE IF CellY(c) = 0 THEN Edge(c, c + width)
            ELSE IF CellY(c) = height - 1 THEN Edge(c, c - width)
            ELSE IF CellX(c) = 0 THEN Edge(c, c + 1)
            ELSE IF CellX(c) = width - 1 THEN Edge(c, c - 1)
            ELSE next[c]]

\* The reflective branch, first loop: top and bottom rows, corners included.
ReflectRows(next, wall) ==
    [c \in Cells |->
        IF CellY(c) = 0 THEN Quot(next[c + width] * wall, 100)
        ELSE IF CellY(c) = height - 1 THEN Quot(next[c - width] * wall, 100)
        ELSE next[c]]

\* The reflective branch, second loop: left and right columns, every row.
ReflectColumns(next, wall) ==
    [c \in Cells |->
        IF CellX(c) = 0 THEN Quot(next[c + 1] * wall, 100)
        ELSE IF CellX(c) = width - 1 THEN Quot(next[c - 1] * wall, 100)
        ELSE next[c]]

\* Boundary conditions of updateStep.
Boundary(p, next, wall, dt, speed) ==
    IF wall < 10 THEN AbsorbingWalls(p, next, dt, speed)
    ELSE ReflectColumns(Stored(ReflectRows(next, wall)), wall)

\* WaveSimulation::updateStep(dt), CPU path.
updateStep(st, dt) ==
    LET inj == InjectSources(st, dt, 1)
        next == Stored(Boundary(inj.pressure,
                         Stored(Stencil(inj.pressure, inj.pressurePrev,
                                        inj.pressureNext, inj.obstacles,
                                        inj.damping, dt, inj.soundSpeed)),
                         inj.wallReflection, dt, inj.soundSpeed))
    IN  [inj EXCEPT !.pressurePrev = inj.pressure,
                    !.pressure = next,
                    !.pressureNext = inj.pressurePrev,
                    !.listenerSampleBuffer =
                        ListenerCapture(@, inj.listenerEnabled,
                                        inj.listenerX, inj.listenerY, next)]

\* The sub-step loop of update from sub-step step on; each sub-step works
\* on the state the one before it left.
RECURSIVE StepLoop(_, _, _)
StepLoop(st, dt, step) ==
    IF step >= dt[2] THEN st
    ELSE CHOOSE last \in {StepLoop(s1, dt, step + 1) :
                              s1 \in {updateStep(st, dt)}} : TRUE

----------------------------------------------------------------------------
(* WaveSimulation::update, GPU branch *)

\* The inner loop without the test of the obstacle mask.
RECURSIVE PreSampleStepOverObstacleBug(_, _, _, _)
PreSampleStepOverObstacleBug(acc, obst, dt, k) ==
    IF k > Len(acc.sources) THEN acc
    ELSE LET s == acc.sources[k]
         IN  IF ~s.playing
             THEN PreSampleStepOverObstacleBug(acc, obst, dt, k + 1)
             ELSE LET r == getCurrentSample(s, dt)
                  IN  PreSampleStepOverObstacleBug(
                        [sources |-> [acc.sources EXCEPT ![k] = r.src],
                         data |-> IF Interior(r.src.x, r.src.y)
                                  THEN Append(acc.data,
                                          [x |-> r.src.x, y |-> r.src.y,
                                           pressure |-> r.value])
                                  ELSE acc.data],
                        obst, dt, k + 1)

\* The inner loop of the pre-sampling: the sources k.. of one sub-step.
\* acc = [sources, data]; data collects the AudioSourceData of this step.
RECURSIVE PreSampleStep(_, _, _, _)
PreSampleStep(acc, obst, dt, k) ==
    IF k > Len(acc.sources) THEN acc
    ELSE LET s == acc.sources[k]
         IN  IF ~s.playing THEN PreSampleStep(acc, obst, dt, k + 1)
             ELSE LET r == getCurrentSample(s, dt)
                      hit == /\ Interior(r.src.x, r.src.y)
                             /\ obst[index(r.src.x, r.src.y)] = 0
                  IN  PreSampleStep(
                        [sources |-> [acc.sources EXCEPT ![k] = r.src],
                         data |-> IF hit
                                  THEN Append(acc.data,
                                          [x |-> r.src.x, y |-> r.src.y,
                                           pressure |-> r.value])
                                  ELSE acc.data],
                        obst, dt, k + 1)

\* The outer loop: audioSourcesPerStep for the steps step..numSteps-1.
RECURSIVE PreSample(_, _, _, _, _)
PreSample(sources, perStep, obst, dt, step) ==
    IF step >= dt[2] THEN [sources |-> sources, perStep |-> perStep]
    ELSE LET r == PreSampleStep([sources |-> sources, data |-> <<>>],
                                obst, dt, 1)
         IN  PreSample(r.sources, Append(perStep, r.data), obst, dt, step + 1)

\* The injections of one sub-step on the device.
RECURSIVE InjectData(_, _, _)
InjectData(p, data, k) ==
    IF k > Len(data) THEN p
    ELSE InjectData([p EXCEPT ![index(data[k].x, data[k].y)] =
                                    @ + data[k].pressure],
                    data, k + 1)

\* MetalSimulationBackend::executeFrame: numSteps sub-steps with the
\* formulas and boundary handling of updateStep, the pre-sampled values
\* injected at their cells, and one listener sample a sub-step unless
\* listenerX is -1.  g = [pressure, pressurePrev, pressureNext, samples].
RECURSIVE executeFrame(_, _, _, _, _, _, _, _, _, _)
executeFrame(g, obst, perStep, lx, ly, dt, speed, damp, wall, step) ==
    IF step >= dt[2] THEN g
    ELSE LET p == InjectData(g.pressure, perStep[step + 1], 1)
             next == Stored(Boundary(p,
                        Stored(Stencil(p, g.pressurePrev, g.pressureNext,
                                       obst, damp, dt, speed)),
                        wall, dt, speed))
         IN  CHOOSE last \in
                {executeFrame(g1, obst, perStep, lx, ly, dt, speed, damp,
                              wall, step + 1) :
                   g1 \in {[pressure |-> next, pressurePrev |-> p,
                            pressureNext |-> g.pressurePrev,
                            samples |-> IF lx >= 0
                                        THEN Append(g.samples,
                                                    next[index(lx, ly)])
                                        ELSE g.samples]}} : TRUE

\* WaveSimulation::update(dt_frame); dt_frame in microseconds.
update(st, dtFrame) ==
    LET numSteps == NumSteps(dtFrame, st.soundSpeed)
        dt == <<dtFrame, numSteps>>
        s0 == [st EXCEPT !.listenerSampleBuffer = <<>>,
                         !.activeRegion =
                             growActiveRegionForFrame(@, dtFrame,
                                                      st.soundSpeed)]
    IN  IF s0.useGPU /\ s0.metalAvailable
        THEN LET pre == PreSample(s0.audioSources, <<>>, s0.obstacles, dt, 0)
                 \* finalPressure and finalPressurePrev start empty; a
                 \* frame that ends in an error leaves them so.
                 out == IF s0.metalFrameFails
                        THEN [pressure |-> <<>>, pressurePrev |-> <<>>,
                              samples |-> <<>>]
                        ELSE executeFrame(
                            [pressure |-> s0.pressure,
                             pressurePrev |-> s0.pressurePrev,
                             pressureNext |-> Fill(0), samples |-> <<>>],
                            s0.obstacles, pre.perStep,
                            IF s0.listenerEnabled THEN s0.listenerX ELSE -1,
                            s0.listenerY, dt, s0.soundSpeed, s0.damping,
                            s0.wallReflection,
                            0)
             IN  [s0 EXCEPT !.audioSources = pre.sources,
                            !.pressure = out.pressure,
                            !.pressurePrev = out.pressurePrev,
                            !.listenerSampleBuffer = out.samples]
        ELSE StepLoop(s0, dt, 0)

----------------------------------------------------------------------------
(* WaveSimulation: the other public calls *)

\* exp(-d2 / (2 sigma^2)) with sigma = 1.25 * radius, in 1/1000, for the
\* impulse radii the model uses (1 and 2); d2 = dx*dx + dy*dy.
GaussianProfile(radius, d2) ==
    IF radius = 1
    THEN CASE d2 = 0 -> 1000 [] d2 = 1 -> 726 [] OTHER -> 527
    ELSE CASE d2 = 0 -> 1000 [] d2 = 1 -> 923 [] d2 = 2 -> 852
           [] d2 = 4 -> 726 [] d2 = 5 -> 670 [] OTHER -> 527

\* The square of offsets -radius..radius around (x, y) both loops walk.
InSquare(c, x, y, radius) ==
    /\ CellX(c) - x \in (-radius) .. radius
    /\ CellY(c) - y \in (-radius) .. radius

Dist2(c, x, y) ==
    (CellX(c) - x) * (CellX(c) - x) + (CellY(c) - y) * (CellY(c) - y)

\* WaveSimulation::addPressureSource; amplitude in 1/100 Pa.
addPressureSourceOverObstacleBug(st, x, y, pressureAmplitude, radius) ==
    IF x < 0 \/ x >= width \/ y < 0 \/ y >= height THEN st
    ELSE LET s1 == [st EXCEPT !.activeRegion =
                                  expandActiveRegion(@, x, y, radius * 2)]
         IN  IF pressureAmplitude <= 0 \/ pressureAmplitude > 100000 THEN s1
             ELSE IF radius < 1 \/ radius > 50 THEN s1
             ELSE [s1 EXCEPT !.pressure =
                     [c \in Cells |->
                        IF /\ InSquare(c, x, y, radius)
                           /\ Interior(CellX(c), CellY(c))
                        THEN st.pressure[c]
                             + Quot(pressureAmplitude
                                    * GaussianProfile(radius, Dist2(c, x, y)),
                                    1000)
                        ELSE st.pressure[c]]]

addPressureSource(st, x, y, pressureAmplitude, radius) ==
    IF x < 0 \/ x >= width \/ y < 0 \/ y >= height THEN st
    ELSE LET s1 == [st EXCEPT !.activeRegion =
                                  expandActiveRegion(@, x, y, radius * 2)]
         IN  IF pressureAmplitude <= 0 \/ pressureAmplitude > 100000 THEN s1
             ELSE IF radius < 1 \/ radius > 50 THEN s1
             ELSE [s1 EXCEPT !.pressure =
                     [c \in Cells |->
                        IF /\ InSquare(c, x, y, radius)
                           /\ Interior(CellX(c), CellY(c))
                           /\ st.obstacles[c] = 0
                        THEN st.pressure[c]
                             + Quot(pressureAmplitude
                                    * GaussianProfile(radius, Dist2(c, x, y)),
                                    1000)
                        ELSE st.pressure[c]]]

\* WaveSimulation::clear.
clear(st) ==
    [st EXCEPT !.pressure = Fill(0), !.pressurePrev = Fill(0),
               !.pressureNext = Fill(0),
               !.activeRegion = ActiveRegionClear(@)]

\* WaveSimulation::addObstacle.
addObstacleSquareBug(st, x, y, radius) ==
    LET hit(c) == /\ InSquare(c, x, y, radius)
                  /\ Interior(CellX(c), CellY(c))
        Zero(f) == [c \in Cells |-> IF hit(c) THEN 0 ELSE f[c]]
    IN  [st EXCEPT !.obstacles = [c \in Cells |-> IF hit(c) THEN 1 ELSE @[c]],
                   !.pressure = Zero(@), !.pressurePrev = Zero(@),
                   !.pressureNext = Zero(@)]

addObstacle(st, x, y, radius) ==
    LET hit(c) == /\ InSquare(c, x, y, radius)
                  /\ Interior(CellX(c), CellY(c))
                  /\ Dist2(c, x, y) <= radius * radius
        Zero(f) == [c \in Cells |-> IF hit(c) THEN 0 ELSE f[c]]
    IN  [st EXCEPT !.obstacles = [c \in Cells |-> IF hit(c) THEN 1 ELSE @[c]],
                   !.pressure = Zero(@), !.pressurePrev = Zero(@),
                   !.pressureNext = Zero(@)]

\* WaveSimulation::removeObstacle.
removeObstacle(st, x, y, radius) ==
    [st EXCEPT !.obstacles =
        [c \in Cells |->
            IF /\ InSquare(c, x, y, radius)
               /\ Interior(CellX(c), CellY(c))
               /\ Dist2(c, x, y) <= radius * radius
            THEN 0 ELSE @[c]]]

\* WaveSimulation::clearObstacles.
clearObstacles(st) == [st EXCEPT !.obstacles = Fill(0)]

\* WaveSimulation::loadObstaclesFromSVG.  loaded is what SVGLoader::loadSVG
\* gave: whether it succeeded and the bytes it produced.  The result is the
\* simulation afterwards and the value returned.
loadObstaclesFromSVG(st, loaded) ==
    LET s1 == clear(clearObstacles(st))
    IN  IF ~loaded.success THEN [sim |-> s1, result |-> FALSE]
        ELSE IF Len(loaded.obstacles) # width * height
        THEN [sim |-> s1, result |-> FALSE]
        ELSE LET mask == [c \in Cells |-> loaded.obstacles[c + 1]]
                 Zero(f) == [c \in Cells |-> IF mask[c] # 0 THEN 0 ELSE f[c]]
             IN  [sim |-> [s1 EXCEPT !.obstacles = mask,
                                     !.pressure = Zero(@),
                                     !.pressurePrev = Zero(@),
                                     !.pressureNext = Zero(@)],
                  result |-> TRUE]

\* WaveSimulation::setListenerPosition.
setListenerPositionNoClampBug(st, x, y) ==
    [st EXCEPT !.listenerX = x, !.listenerY = y]

setListenerPosition(st, x, y) ==
    [st EXCEPT !.listenerX = Max(0, Min(x, width - 1)),
               !.listenerY = Max(0, Min(y, height - 1))]

\* WaveSimulation::getListenerPosition.
getListenerPosition(st) == <<st.listenerX, st.listenerY>>

\* WaveSimulation::setListenerEnabled.
setListenerEnabled(st, enabled) == [st EXCEPT !.listenerEnabled = enabled]

\* WaveSimulation::getListenerPressure.
getListenerPressure(st) ==
    IF ~st.listenerEnabled THEN 0
    ELSE IF \/ st.listenerX < 0 \/ st.listenerX >= width
            \/ st.listenerY < 0 \/ st.listenerY >= height
    THEN 0
    ELSE st.pressure[index(st.listenerX, st.listenerY)]

\* WaveSimulation::getListenerSamples: the buffer is moved out.
getListenerSamples(st) == [st EXCEPT !.listenerSampleBuffer = <<>>]

\* WaveSimulation::applyDampingPreset.
applyDampingPresetResetBug(st, preset) ==
    [st EXCEPT !.damping = preset.damping,
               !.wallReflection = preset.wallReflection,
               !.currentPreset = preset,
               !.pressure = Fill(0)]

applyDampingPreset(st, preset) ==
    [st EXCEPT !.damping = preset.damping,
               !.wallReflection = preset.wallReflection,
               !.currentPreset = preset]

\* WaveSimulation::addAudioSource (of a non-null source).
addAudioSource(st, src) ==
    [st EXCEPT !.activeRegion = expandActiveRegion(@, src.x, src.y, 10),
               !.audioSources = Append(@, src)]

\* WaveSimulation::removeAudioSource; sourceId counts from 0.
removeAudioSource(st, sourceId) ==
    IF sourceId < Len(st.audioSources)
    THEN [st EXCEPT !.audioSources =
             SubSeq(@, 1, sourceId) \o SubSeq(@, sourceId + 2, Len(@))]
    ELSE st

\* WaveSimulation::setWaveSpeed; speed in m/s.
setWaveSpeed(st, speed) == [st EXCEPT !.soundSpeed = speed]

\* WaveSimulation::setGPUEnabled.
setGPUEnabled(st, enabled) ==
    IF enabled /\ ~st.metalAvailable THEN [st EXCEPT !.useGPU = FALSE]
    ELSE [st EXCEPT !.useGPU = enabled]

\* The simulation of the specifications that do not exercise it.
WaveIdle ==
    /\ sim = NewSimulation(FALSE)
    /\ calls = <<>>

\* SimulationEngine::SimulationEngine(): lastFrameTime(0.0); no frame yet.
NewEngine ==
    [initialized |-> FALSE, lastFrameTime |-> 0, frames |-> 0, inputs |-> 0,
     skips |-> 0, tick |-> FALSE,
     frame |-> [lastFrameTime |-> 0, hasListener |-> FALSE, pushed |-> 0,
                skips |-> 0],
     window |-> <<>>]

\* SimulationState's member initialisers (the fields the commands below use).
NewSimulationState ==
    [showHelp |-> TRUE, obstacleMode |-> FALSE, listenerMode |-> FALSE,
     sourceMode |-> FALSE]

\* SimulationController::SimulationController(): state is default-constructed.
NewController ==
    [state |-> NewSimulationState, before |-> NewSimulationState,
     commands |-> <<>>]

\* bufferMutex is free; the simulation thread and the device thread are
\* outside every method of the AudioOutput.
NewThreads ==
    [lock |-> "none", sim |-> "idle", dev |-> "idle", arg |-> 0,
     frameCount |-> 0, ops |-> 0]

\* The mouse state SimulationEngine's constructor sets, the cursor at the
\* window's origin, and no command pending.
NewInput ==
    [mousePressed |-> FALSE, draggingListener |-> FALSE,
     lastMouseX |-> 0, lastMouseY |-> 0, cursorX |-> 0, cursorY |-> 0,
     pendingCommands |-> <<>>, pressX |-> 0, pressY |-> 0,
     last |-> [op |-> "new", dragging |-> FALSE, queuedToggle |-> FALSE],
     ops |-> 0]

\* The main loop is not running, no command is processed, no thread is
\* inside the AudioOutput and no input event has come.
EngineIdle ==
    /\ engine = NewEngine /\ controller = NewController
    /\ threads = NewThreads /\ input = NewInput

----------------------------------------------------------------------------
(* AudioOutput: the ring between the simulation thread and the device      *)
(* callback.  Rates are scaled down together: the program's 48000 samples   *)
(* and 60 frames per second become CtorSampleRate samples and               *)
(* SimulationFrameRate frames per second.  What the code computes with is   *)
(* kept: the ring is sampleRate slots long (one second) and a frame writes  *)
(* (int)(sampleRate / simulationFrameRate) samples.                         *)

\* AudioOutput::AudioOutput(): sampleRate(48000), scaled.
CtorSampleRate == 12
\* The other rate initialize() is called with (44100, scaled).
OtherSampleRate == 6
SampleRates == {CtorSampleRate, OtherSampleRate}

\* simulationFrameRate(60.0f), scaled.
SimulationFrameRate == 4
\* REFERENCE_PRESSURE = 20 Pa, in 1/100 Pa
REFERENCE_PRESSURE == 2000
\* MAX_AMPLITUDE = 0.95, in 1/1000
MAX_AMPLITUDE == 950
\* volume(1.0f), in 1/1000
CtorVolume == 1000

\* Pressures the simulation thread submits (1/100 Pa).
SubmitPressures == {0, 1000}
MaxSubmits == 3
\* frameCount of a device callback
MaxFrameCount == 2

\* std::vector<float>::resize(n, 0.0f)
Resize(buf, n) ==
    [k \in 1..n |-> IF k <= Len(buf) THEN buf[k] ELSE 0]

\* AudioOutput::pressureToAudio: pressure / 20 Pa * volume, clamped.
pressureToAudio(pressure) ==
    LET sample == Quot(pressure * CtorVolume, REFERENCE_PRESSURE)
    IN  Max(-MAX_AMPLITUDE, Min(MAX_AMPLITUDE, sample))

\* A call on the AudioOutput leaves the other objects alone.
RingOnly == UNCHANGED <<srcVars, waveVars, engVars, ctrlVars, mtxVars, inVars>>

RingObjInit ==
    /\ audioBuffer = Resize(<<>>, CtorSampleRate)
    /\ bufferWritePos = 0
    /\ bufferReadPos = 0
    /\ sampleRate = CtorSampleRate
    /\ previousPressure = 0
    /\ muted = FALSE
    /\ deviceInitialized = FALSE
    /\ device = FALSE
    /\ deviceStarted = FALSE
    /\ orphanStarted = FALSE
    /\ memFault = FALSE
    /\ submits = 0
    /\ fresh = {}
    /\ cb = [calls |-> 0, frameCount |-> 0, unread |-> 0, out |-> <<>>,
             stale |-> <<>>]

\* AudioOutput::initialize(sampleRate); ok is ma_device_init's answer.
initialize(rate, ok) ==
    /\ RingOnly
    /\ ~memFault
    /\ sampleRate' = rate
    /\ audioBuffer' = Resize(audioBuffer, rate)
    /\ orphanStarted' = (orphanStarted \/ deviceStarted)
    /\ deviceStarted' = FALSE
    /\ device' = ok
    /\ deviceInitialized' = (deviceInitialized \/ ok)
    /\ fresh' = {k \in fresh : k < rate}
    /\ UNCHANGED <<bufferWritePos, bufferReadPos, previousPressure, muted,
                   memFault, submits, cb>>

\* AudioOutput::start(); ok is ma_device_start's answer.
start(ok) ==
    /\ RingOnly
    /\ ~memFault
    /\ deviceInitialized /\ device
    /\ deviceStarted' = (deviceStarted \/ ok)
    /\ UNCHANGED <<audioBuffer, bufferWritePos, bufferReadPos, sampleRate,
                   previousPressure, muted, deviceInitialized, device,
                   orphanStarted, memFault, submits, fresh, cb>>

\* AudioOutput::stop()
stopDevice ==
    /\ RingOnly
    /\ ~memFault
    /\ deviceInitialized /\ device
    /\ deviceStarted' = FALSE
    /\ UNCHANGED <<audioBuffer, bufferWritePos, bufferReadPos, sampleRate,
                   previousPressure, muted, deviceInitialized, device,
                   orphanStarted, memFault, submits, fresh, cb>>

\* AudioOutput::setMuted
setMuted(m) ==
    /\ RingOnly
    /\ ~memFault
    /\ muted' = m
    /\ UNCHANGED <<audioBuffer, bufferWritePos, bufferReadPos, sampleRate,
                   previousPressure, deviceInitialized, device, deviceStarted,
                   orphanStarted, memFault, submits, fresh, cb>>

\* The loop of submitPressureSample from iteration i on.  st is
\* [buf, w, r, fault, fresh]; a write outside the buffer is a memory fault.
RECURSIVE SubmitLoop(_, _, _, _)
SubmitLoop(i, samplesPerFrame, pressure, st) ==
    IF i >= samplesPerFrame \/ st.fault THEN st
    ELSE IF st.w >= Len(st.buf) THEN [st EXCEPT !.fault = TRUE]
    ELSE
      LET interpolatedPressure ==
              previousPressure + Quot(i * (pressure - previousPressure), samplesPerFrame)
          w2 == (st.w + 1) % Len(st.buf)
          r2 == IF w2 = st.r THEN (st.r + 1) % Len(st.buf) ELSE st.r
      IN  SubmitLoop(i + 1, samplesPerFrame, pressure,
                     [buf |-> [st.buf EXCEPT ![st.w + 1] = interpolatedPressure],
                      w |-> w2, r |-> r2, fault |-> FALSE,
                      fresh |-> IF w2 = st.r
                                THEN (st.fresh \cup {st.w}) \ {st.r}
                                ELSE st.fresh \cup {st.w}])

\* AudioOutput::submitPressureSample(pressure, timeScale): what the body
\* does to the AudioOutput.
submitPressureSampleBody(pressure) ==
    /\ ~memFault
    /\ submits < MaxSubmits
    /\ LET samplesPerFrame == sampleRate \div SimulationFrameRate
           st == SubmitLoop(0, samplesPerFrame, pressure,
                            [buf |-> audioBuffer, w |-> bufferWritePos,
                             r |-> bufferReadPos, fault |-> FALSE,
                             fresh |-> fresh])
       IN  /\ audioBuffer' = st.buf
           /\ bufferWritePos' = st.w
           /\ bufferReadPos' = st.r
           /\ memFault' = st.fault
           /\ fresh' = st.fresh
           /\ previousPressure' = IF st.fault THEN previousPressure ELSE pressure
    /\ submits' = submits + 1
    /\ UNCHANGED <<sampleRate, muted, deviceInitialized, device, deviceStarted,
                   orphanStarted, cb>>

\* AudioOutput::submitPressureSample(pressure, timeScale), lock to unlock.
submitPressureSample(pressure) ==
    /\ RingOnly
    /\ submitPressureSampleBody(pressure)

\* The loop of audioCallback from iteration i on.  st is
\* [r, out, fault, fresh, stale]; stale[k] says that the k-th slot read held
\* no unread sample.
RECURSIVE CallbackLoop(_, _, _)
CallbackLoop(i, frameCount, st) ==
    IF i >= frameCount \/ st.fault THEN st
    ELSE IF st.r >= Len(audioBuffer) THEN [st EXCEPT !.fault = TRUE]
    ELSE
      LET pressure == audioBuffer[st.r + 1]
          sample == IF muted THEN 0 ELSE pressureToAudio(pressure)
      IN  CallbackLoop(i + 1, frameCount,
                       [r |-> (st.r + 1) % Len(audioBuffer),
                        out |-> Append(st.out, sample), fault |-> FALSE,
                        fresh |-> st.fresh \ {st.r},
                        stale |-> Append(st.stale, st.r \notin st.fresh)])

\* AudioOutput::audioCallback(pDevice, pOutput, pInput, frameCount): what
\* the body does to the AudioOutput.
audioCallbackBody(frameCount) ==
    /\ ~memFault
    /\ deviceStarted \/ orphanStarted
    /\ LET st == CallbackLoop(0, frameCount,
                              [r |-> bufferReadPos, out |-> <<>>, fault |-> FALSE,
                               fresh |-> fresh, stale |-> <<>>])
       IN  /\ bufferReadPos' = st.r
           /\ memFault' = st.fault
           /\ fresh' = st.fresh
           /\ cb' = [calls |-> 1, frameCount |-> frameCount,
                     unread |-> Cardinality(fresh),
                     out |-> st.out, stale |-> st.stale]
    /\ UNCHANGED <<audioBuffer, bufferWritePos, sampleRate, previousPressure,
                   muted, deviceInitialized, device, deviceStarted,
                   orphanStarted, submits>>

\* AudioOutput::audioCallback, called by a started device on its own
\* thread, lock to unlock.
audioCallback(frameCount) ==
    /\ RingOnly
    /\ audioCallbackBody(frameCount)

----------------------------------------------------------------------------
(* Specification SpecAudio: one AudioOutput, the simulation thread's calls  *)
(* and the device thread's callbacks interleaved (each holds bufferMutex    *)
(* for its whole body, initialize() excepted, which runs on the simulation  *)
(* thread between them).                                                    *)

AudioInit == SourceIdle /\ RingObjInit /\ WaveIdle /\ EngineIdle

AudioNext ==
    \/ \E rate \in SampleRates, ok \in BOOLEAN : initialize(rate, ok)
    \/ \E ok \in BOOLEAN : start(ok)
    \/ stopDevice
    \/ \E m \in BOOLEAN : setMuted(m)
    \/ \E p \in SubmitPressures : submitPressureSample(p)
    \/ \E n \in 1..MaxFrameCount : audioCallback(n)

SpecAudio == AudioInit /\ [][AudioNext]_vars

----------------------------------------------------------------------------
(* C7: when the device callback asks for more samples than have been        *)
(* written and not yet read, what it outputs for a slot that holds no       *)
(* unread sample (one already played, or never written) is 0.               *)

C7_UnderrunIsZero ==
    \A k \in 1..Len(cb.out) : cb.stale[k] => cb.out[k] = 0

(* C8: the ring's read and write indices are smaller than the ring buffer   *)
(* length in every reachable state.                                         *)

C8_IndicesInRange ==
    /\ bufferWritePos < Len(audioBuffer)
    /\ bufferReadPos < Len(audioBuffer)

----------------------------------------------------------------------------
(* Specification SpecSource: one AudioSource driven by its public calls *)

\* Sub-step lengths handed to getCurrentSample: <<dtFrame, numSteps>> in us.
MaxSubStepUs == 15
SubStepDts == {<<d, 1>> : d \in {5, 10, MaxSubStepUs}}

SourceObjInit ==
    /\ \E name \in SampleNames, loop \in BOOLEAN :
          source = NewSource(name, 1, 1, 0, loop)
    /\ srcCall = [op |-> "new", before |-> NewSource("tick", 1, 1, 0, TRUE),
                  heads |-> <<>>, value |-> 0, samplesPerStep |-> 0]

SourceInit == SourceObjInit /\ RingObjInit /\ WaveIdle /\ EngineIdle

\* A call on the source leaves the other objects alone.
SourceOnly == UNCHANGED <<ringVars, waveVars, engVars, ctrlVars, mtxVars, inVars>>

SrcCallOf(op, res) ==
    [op |-> op, before |-> source, heads |-> res.heads, value |-> res.value,
     samplesPerStep |-> res.samplesPerStep]

NoRes == [heads |-> <<>>, value |-> 0, samplesPerStep |-> 0]

SrcPlay ==
    /\ SourceOnly
    /\ source' = play(source)
    /\ srcCall' = SrcCallOf("play", NoRes)

SrcStop ==
    /\ SourceOnly
    /\ source' = stop(source)
    /\ srcCall' = SrcCallOf("stop", NoRes)

SrcPause ==
    /\ SourceOnly
    /\ source' = pause(source)
    /\ srcCall' = SrcCallOf("pause", NoRes)

SrcResume ==
    /\ SourceOnly
    /\ source' = resume(source)
    /\ srcCall' = SrcCallOf("resume", NoRes)

SrcSetLoop ==
    \E b \in BOOLEAN :
        /\ SourceOnly
        /\ source' = setLoop(source, b)
        /\ srcCall' = SrcCallOf("setLoop", NoRes)

SrcGetCurrentSample ==
    \E dt \in SubStepDts :
        LET res == getCurrentSample(source, dt)
        IN  /\ SourceOnly
            /\ source' = res.src
            /\ srcCall' = SrcCallOf("getCurrentSample", res)

SourceNext ==
    \/ SrcPlay
    \/ SrcStop
    \/ SrcPause
    \/ SrcResume
    \/ SrcSetLoop
    \/ SrcGetCurrentSample

SpecSource == SourceInit /\ [][SourceNext]_vars

----------------------------------------------------------------------------
(* C10: getCurrentSample leaves the play head where it was when the source  *)
(* is not playing; in a call during which the play head reaches the sample  *)
(* length, a looping source's head is wrapped to 0 at that point (it never  *)
(* rests at the length) and the source is still playing after the call,     *)
(* and a non-looping source is not playing after the call.                  *)

ReachedEnd(call) ==
    \E k \in 1..Len(call.heads) :
        (IF k = 1 THEN call.before.playbackPosition ELSE call.heads[k - 1]) + 1
            = getLength(call.before.sample)

C10_PlayHead ==
    srcCall.op = "getCurrentSample" =>
        /\ ~srcCall.before.playing =>
              source.playbackPosition = srcCall.before.playbackPosition
        /\ (srcCall.before.playing /\ ReachedEnd(srcCall)) =>
              IF srcCall.before.loop
              THEN /\ source.playing
                   /\ \A k \in 1..Len(srcCall.heads) :
                         (IF k = 1 THEN srcCall.before.playbackPosition
                          ELSE srcCall.heads[k - 1]) + 1
                             = getLength(srcCall.before.sample)
                         => srcCall.heads[k] = 0
                   /\ source.playbackPosition < getLength(source.sample)
              ELSE ~source.playing

\* Witnesses: a looping source wrapped inside a call and went on summing; a
\* non-looping source ran out; a paused source was asked for a sample.
C10_Witness ==
    /\ srcCall.op = "getCurrentSample"
    /\ srcCall.before.playing
    /\ srcCall.before.loop
    /\ ReachedEnd(srcCall)
    /\ source.playbackPosition > 0

----------------------------------------------------------------------------
(* Playback transitions of AudioSource *)

\* C11: play() sets the play head to 0 and playing to true; stop() sets
\* playing to false and the head to 0; pause() sets playing to false and
\* resume() sets it to true, both leaving the head where it was; so a
\* resume() right after a pause() goes on from the head the pause() found.
\* Every call touches nothing but playing and the head.
C11_PlaybackTransitions ==
    [][/\ srcCall'.op = "play" =>
             source' = [source EXCEPT !.playing = TRUE,
                                      !.playbackPosition = 0]
       /\ srcCall'.op = "stop" =>
             source' = [source EXCEPT !.playing = FALSE,
                                      !.playbackPosition = 0]
       /\ srcCall'.op = "pause" =>
             source' = [source EXCEPT !.playing = FALSE]
       /\ srcCall'.op = "resume" =>
             source' = [source EXCEPT !.playing = TRUE]
       /\ (srcCall.op = "pause" /\ srcCall'.op = "resume") =>
             /\ source'.playing
             /\ source'.playbackPosition = srcCall.before.playbackPosition
      ]_vars

\* resume() has been called on a source paused in the middle of its sample.
C11_Witness ==
    /\ srcCall.op = "resume"
    /\ ~srcCall.before.playing
    /\ srcCall.before.playbackPosition > 0
    /\ srcCall.before.playbackPosition < getLength(source.sample)
    /\ source.playing
    /\ source.playbackPosition = srcCall.before.playbackPosition

----------------------------------------------------------------------------
(* SpecWave: one WaveSimulation under its public calls.  calls is the      *)
(* history of the calls made: name, arguments, value returned and the      *)
(* simulation as it was before the call.                                   *)

MaxOps == 3
MaxSources == 1
MaxFrameUs == 20

\* Frame times in microseconds: one sub-step and two.
FrameDts == {10, MaxFrameUs}

\* addPressureSource arguments <<x, y, amplitude, radius>>: accepted ones,
\* amplitudes and radii outside the accepted ranges, a cell off the grid.
ImpulseCalls ==
    {<<2, 1, 1000, 1>>, <<3, 2, 1000, 2>>,
     <<2, 1, -1000, 1>>, <<2, 1, 100100, 1>>,
     <<2, 1, 1000, 0>>, <<2, 1, 1000, -3>>, <<2, 1, 1000, 51>>,
     <<-1, 1, 1000, 1>>}

\* addObstacle / removeObstacle arguments <<x, y, radius>>.
ObstacleDisks == {<<2, 1, 1>>, <<2, 2, 0>>}

\* What SVGLoader::loadSVG can give: failure, a wall along the left edge of
\* the picture, a pillar inside it.
SvgLoads ==
    {[success |-> FALSE, obstacles |-> <<>>],
     [success |-> TRUE,
      obstacles |-> [i \in 1 .. width * height |->
                        IF CellX(i - 1) = 0 THEN 1 ELSE 0]],
     [success |-> TRUE,
      obstacles |-> [i \in 1 .. width * height |->
                        IF i - 1 = index(1, 1) THEN 1 ELSE 0]]}

\* Sources handed to addAudioSource: one playing inside the room, one
\* placed far outside the grid.
NewSources ==
    {play(NewSource("tick", 1, 2, 0, TRUE)),
     play(NewSource("burst", -100, 1, -6, FALSE))}

ListenerPositions == {<<1, 1>>, <<-5, 99>>, <<width + 2, -1>>}

\* setWaveSpeed arguments, m/s.
WaveSpeeds == {100, 400}

WaveObjInit ==
    /\ \E metalAvailable \in BOOLEAN : sim = NewSimulation(metalAvailable)
    /\ calls = <<>>

WaveInit == WaveObjInit /\ SourceIdle /\ RingObjInit /\ EngineIdle

WaveOnly == UNCHANGED <<srcVars, ringVars, engVars, ctrlVars, mtxVars, inVars>>

Call(op, args, result, after) ==
    /\ Len(calls) < MaxOps
    /\ sim' = after
    /\ calls' = Append(calls, [op |-> op, args |-> args, result |-> result,
                               pre |-> sim])
    /\ WaveOnly

SimUpdate ==
    \E dt \in FrameDts : Call("update", <<dt>>, TRUE, update(sim, dt))

SimAddPressureSource ==
    \E a \in ImpulseCalls :
        Call("addPressureSource", a, TRUE,
             addPressureSource(sim, a[1], a[2], a[3], a[4]))

SimClear == Call("clear", <<>>, TRUE, clear(sim))

SimAddObstacle ==
    \E d \in ObstacleDisks :
        Call("addObstacle", d, TRUE, addObstacle(sim, d[1], d[2], d[3]))

SimRemoveObstacle ==
    \E d \in ObstacleDisks :
        Call("removeObstacle", d, TRUE, removeObstacle(sim, d[1], d[2], d[3]))

SimClearObstacles == Call("clearObstacles", <<>>, TRUE, clearObstacles(sim))

SimLoadObstaclesFromSVG ==
    \E loaded \in SvgLoads :
        LET r == loadObstaclesFromSVG(sim, loaded)
        IN  Call("loadObstaclesFromSVG", <<>>, r.result, r.sim)

SimSetListenerPosition ==
    \E p \in ListenerPositions :
        Call("setListenerPosition", p, TRUE,
             setListenerPosition(sim, p[1], p[2]))

SimSetListenerEnabled ==
    \E enabled \in BOOLEAN :
        Call("setListenerEnabled", <<enabled>>, TRUE,
             setListenerEnabled(sim, enabled))

SimGetListenerSamples ==
    Call("getListenerSamples", <<>>, TRUE, getListenerSamples(sim))

SimApplyDampingPreset ==
    \E type \in PresetTypes :
        Call("applyDampingPreset", <<type>>, TRUE,
             applyDampingPreset(sim, fromType(type)))

SimAddAudioSource ==
    /\ Len(sim.audioSources) < MaxSources
    /\ \E src \in NewSources :
        Call("addAudioSource", <<src.x, src.y>>, TRUE,
             addAudioSource(sim, src))

SimRemoveAudioSource ==
    \E sourceId \in 0 .. MaxSources :
        Call("removeAudioSource", <<sourceId>>, TRUE,
             removeAudioSource(sim, sourceId))

SimSetGPUEnabled ==
    \E enabled \in BOOLEAN :
        Call("setGPUEnabled", <<enabled>>, TRUE, setGPUEnabled(sim, enabled))

SimSetWaveSpeed ==
    \E speed \in WaveSpeeds :
        Call("setWaveSpeed", <<speed>>, TRUE, setWaveSpeed(sim, speed))

WaveNext ==
    \/ SimUpdate
    \/ SimAddPressureSource
    \/ SimClear
    \/ SimAddObstacle
    \/ SimRemoveObstacle
    \/ SimClearObstacles
    \/ SimLoadObstaclesFromSVG
    \/ SimSetListenerPosition
    \/ SimSetListenerEnabled
    \/ SimGetListenerSamples
    \/ SimApplyDampingPreset
    \/ SimAddAudioSource
    \/ SimRemoveAudioSource
    \/ SimSetGPUEnabled
    \/ SimSetWaveSpeed

SpecWave == WaveInit /\ [][WaveNext]_vars

\* The last call made and the one before it.
LastCall == calls[Len(calls)]
PrevCall == calls[Len(calls) - 1]

----------------------------------------------------------------------------
(* Properties of WaveSimulation *)  

\* C1: every cell whose obstacle flag is non-zero, edge rows and columns
\* included, has pressure 0 in the current, previous and next fields.
C1_ObstaclePressureZero ==
    \A c \in Cells :
        sim.obstacles[c] # 0 =>
            /\ sim.pressure[c] = 0
            /\ sim.pressurePrev[c] = 0
            /\ sim.pressureNext[c] = 0

\* C2 as stated: after every update(dt_frame) the listener buffer holds
\* exactly n samples, n the number of sub-steps of that frame.
C2_ListenerCardinality ==
    (calls # <<>> /\ LastCall.op = "update") =>
        Len(sim.listenerSampleBuffer) = NumSteps(LastCall.args[1], LastCall.pre.soundSpeed)

\* C2 amended: after every update(dt_frame) the listener buffer holds
\* exactly n samples when the listener is enabled and none when it is
\* disabled; samples of an earlier frame are never among them.
C2_ListenerCardinalityWhenEnabled ==
    (calls # <<>> /\ LastCall.op = "update") =>
        Len(sim.listenerSampleBuffer) =
            IF sim.listenerEnabled THEN NumSteps(LastCall.args[1], LastCall.pre.soundSpeed) ELSE 0

\* A second update in a row with the listener enabled and two sub-steps.
C2_Witness ==
    /\ Len(calls) >= 2
    /\ LastCall.op = "update"
    /\ PrevCall.op = "update"
    /\ sim.listenerEnabled
    /\ LastCall.pre.listenerSampleBuffer # <<>>
    /\ Len(sim.listenerSampleBuffer) = 2

\* What a call may not touch when it is rejected.
SolverState(st) ==
    <<st.pressure, st.pressurePrev, st.pressureNext, st.obstacles,
      st.activeRegion, st.listenerX, st.listenerY, st.listenerEnabled,
      st.listenerSampleBuffer, st.audioSources>>

\* C3: addPressureSource with an amplitude outside (0, 1000] Pa or a radius
\* outside [1, 50] changes no solver state: fields, mask, active region,
\* listener and sources are as before the call.
C3_RejectedImpulseChangesNothing ==
    (/\ calls # <<>>
     /\ LastCall.op = "addPressureSource"
     /\ \/ LastCall.args[3] <= 0
        \/ LastCall.args[3] > 100000
        \/ LastCall.args[4] < 1
        \/ LastCall.args[4] > 50)
    => SolverState(sim) = SolverState(LastCall.pre)

\* C4: when loading an obstacle mask fails, the call returns an error and
\* the obstacle mask is cell for cell the mask before the call.
C4_FailedLoadKeepsMask ==
    (/\ calls # <<>>
     /\ LastCall.op = "loadObstaclesFromSVG"
     /\ ~LastCall.result)
    => sim.obstacles = LastCall.pre.obstacles

\* addObstacle(x, y, r) directly followed by removeObstacle(x, y, r).
AddThenRemove ==
    /\ Len(calls) >= 2
    /\ LastCall.op = "removeObstacle"
    /\ PrevCall.op = "addObstacle"
    /\ LastCall.args = PrevCall.args

\* C5 as stated: addObstacle(x, y, r) then removeObstacle(x, y, r) leaves
\* the mask equal to the mask before the two calls, for any mask.
C5_AddRemoveRestoresMask ==
    AddThenRemove => sim.obstacles = PrevCall.pre.obstacles

\* C5 amended: addObstacle(x, y, r) then removeObstacle(x, y, r) leaves
\* every interior cell within distance r of (x, y) clear and every other
\* cell as it was before the two calls; so the mask is the one before the
\* two calls exactly when none of those cells was an obstacle then.
C5_AddRemoveClearsDisk ==
    AddThenRemove =>
        LET x == LastCall.args[1]
            y == LastCall.args[2]
            r == LastCall.args[3]
            before == PrevCall.pre.obstacles
            InDisk(c) == /\ Interior(CellX(c), CellY(c))
                         /\ (CellX(c) - x) * (CellX(c) - x)
                            + (CellY(c) - y) * (CellY(c) - y) <= r * r
        IN  /\ \A c \in Cells :
                sim.obstacles[c] = IF InDisk(c) THEN 0 ELSE before[c]
            /\ (sim.obstacles = before)
                 <=> (\A c \in Cells : InDisk(c) => before[c] = 0)

\* The pair of calls on a mask that had obstacles, none of them in the
\* disk, and the mask is back to what it was.
C5_Witness ==
    /\ AddThenRemove
    /\ LastCall.args[3] >= 1
    /\ \E c \in Cells : PrevCall.pre.obstacles[c] # 0
    /\ sim.obstacles = PrevCall.pre.obstacles

\* C6: addPressureSource(x, y, +A) then addPressureSource(x, y, -A) with
\* the same radius and no update in between leave the pressure at (x, y)
\* within 0.1 Pa of what it was before the first call.
C6_OppositeImpulsesCancel ==
    (/\ Len(calls) >= 2
     /\ LastCall.op = "addPressureSource"
     /\ PrevCall.op = "addPressureSource"
     /\ PrevCall.args[3] > 0
     /\ LastCall.args = <<PrevCall.args[1], PrevCall.args[2],
                          -PrevCall.args[3], PrevCall.args[4]>>
     /\ PrevCall.args[1] \in 0 .. (width - 1)
     /\ PrevCall.args[2] \in 0 .. (height - 1))
    => LET c == index(PrevCall.args[1], PrevCall.args[2])
           d == sim.pressure[c] - PrevCall.pre.pressure[c]
       IN  d > -10 /\ d < 10

\* C9: whenever hasActivity is set, 0 <= minX <= maxX <= W-1 and
\* 0 <= minY <= maxY <= H-1.
C9_ActiveRegionBounds ==
    sim.activeRegion.hasActivity =>
        /\ 0 <= sim.activeRegion.minX
        /\ sim.activeRegion.minX <= sim.activeRegion.maxX
        /\ sim.activeRegion.maxX <= width - 1
        /\ 0 <= sim.activeRegion.minY
        /\ sim.activeRegion.minY <= sim.activeRegion.maxY
        /\ sim.activeRegion.maxY <= height - 1

\* C12: applyDampingPreset(p) sets damping and wallReflection to p's and
\* records p as the current preset; the three pressure fields, the audio
\* sources with their play heads and every other member are as before.
C12_PresetFrame ==
    (calls # <<>> /\ LastCall.op = "applyDampingPreset") =>
        LET p == fromType(LastCall.args[1])
        IN  /\ sim.damping = p.damping
            /\ sim.wallReflection = p.wallReflection
            /\ sim.currentPreset = p
            /\ sim.pressure = LastCall.pre.pressure
            /\ sim.pressurePrev = LastCall.pre.pressurePrev
            /\ sim.pressureNext = LastCall.pre.pressureNext
            /\ sim.audioSources = LastCall.pre.audioSources
            /\ sim = [LastCall.pre EXCEPT !.damping = p.damping,
                                          !.wallReflection = p.wallReflection,
                                          !.currentPreset = p]

\* Another preset applied while a wave is in the room and a source is in
\* the middle of its sample.
C12_Witness ==
    /\ calls # <<>>
    /\ LastCall.op = "applyDampingPreset"
    /\ sim.currentPreset # LastCall.pre.currentPreset
    /\ \E c \in Cells : sim.pressure[c] # 0
    /\ sim.audioSources # <<>>
    /\ sim.audioSources[1].playbackPosition > 0

\* C13: after setListenerPosition(x, y), getListenerPosition gives
\* (clamp(x, 0, W-1), clamp(y, 0, H-1)); and in every state the stored
\* listener position is a cell of the grid.
C13_ListenerClamped ==
    /\ (calls # <<>> /\ LastCall.op = "setListenerPosition") =>
          LET x == LastCall.args[1]
              y == LastCall.args[2]
          IN  getListenerPosition(sim) =
                <<IF x < 0 THEN 0 ELSE IF x > width - 1 THEN width - 1 ELSE x,
                  IF y < 0 THEN 0 ELSE IF y > height - 1 THEN height - 1
                  ELSE y>>
    /\ getListenerPosition(sim)[1] \in 0 .. (width - 1)
    /\ getListenerPosition(sim)[2] \in 0 .. (height - 1)

\* A position left of the grid and below it was given and clamped.
C13_Witness ==
    /\ calls # <<>>
    /\ LastCall.op = "setListenerPosition"
    /\ LastCall.args[1] < 0
    /\ LastCall.args[2] > height - 1
    /\ getListenerPosition(sim) = <<0, height - 1>>

----------------------------------------------------------------------------
(* SpecListener: the calls that place obstacles, the listener and sound,   *)
(* taken further than SpecWave takes them.                                 *)

MaxListenerOps == 5

ListenerCall(op, args, result, after) ==
    /\ Len(calls) < MaxListenerOps
    /\ sim' = after
    /\ calls' = Append(calls, [op |-> op, args |-> args, result |-> result,
                               pre |-> sim])
    /\ WaveOnly

LsnUpdate ==
    \E dt \in FrameDts : ListenerCall("update", <<dt>>, TRUE, update(sim, dt))

LsnAddPressureSource ==
    ListenerCall("addPressureSource", <<2, 1, 1000, 1>>, TRUE,
                 addPressureSource(sim, 2, 1, 1000, 1))

LsnAddObstacle ==
    \E d \in ObstacleDisks :
        ListenerCall("addObstacle", d, TRUE,
                     addObstacle(sim, d[1], d[2], d[3]))

LsnLoadObstaclesFromSVG ==
    \E loaded \in {l \in SvgLoads : l.success} :
        LET r == loadObstaclesFromSVG(sim, loaded)
        IN  ListenerCall("loadObstaclesFromSVG", <<>>, r.result, r.sim)

LsnSetListenerPosition ==
    \E p \in ListenerPositions :
        ListenerCall("setListenerPosition", p, TRUE,
                     setListenerPosition(sim, p[1], p[2]))

LsnSetListenerEnabled ==
    \E enabled \in BOOLEAN :
        ListenerCall("setListenerEnabled", <<enabled>>, TRUE,
                     setListenerEnabled(sim, enabled))

LsnAddAudioSource ==
    /\ Len(sim.audioSources) < MaxSources
    /\ ListenerCall("addAudioSource", <<1, 2>>, TRUE,
                    addAudioSource(sim, play(NewSource("tick", 1, 2, 0, TRUE))))

ListenerNext ==
    \/ LsnUpdate
    \/ LsnAddPressureSource
    \/ LsnAddObstacle
    \/ LsnLoadObstaclesFromSVG
    \/ LsnSetListenerPosition
    \/ LsnSetListenerEnabled
    \/ LsnAddAudioSource

SpecListener == WaveInit /\ [][ListenerNext]_vars

\* C14: while the listener is enabled and its cell is an obstacle,
\* getListenerPressure is 0 and every sample a frame has captured is 0.
C14_ListenerInObstacleIsSilent ==
    (/\ sim.listenerEnabled
     /\ sim.obstacles[index(sim.listenerX, sim.listenerY)] # 0)
    => /\ getListenerPressure(sim) = 0
       /\ (calls # <<>> /\ LastCall.op = "update") =>
             \A k \in 1 .. Len(sim.listenerSampleBuffer) :
                 sim.listenerSampleBuffer[k] = 0

----------------------------------------------------------------------------
(* SpecCfl: frames of many lengths at many wave speeds *)

MaxCflOps == 3
MaxCflFrameUs == 30
CflSpeeds == {1, 50, CtorSoundSpeed, 400, 1000, 1500}

CflCall(op, args, result, after) ==
    /\ Len(calls) < MaxCflOps
    /\ sim' = after
    /\ calls' = Append(calls, [op |-> op, args |-> args, result |-> result,
                               pre |-> sim])
    /\ WaveOnly

CflSetWaveSpeed ==
    \E speed \in CflSpeeds :
        CflCall("setWaveSpeed", <<speed>>, TRUE, setWaveSpeed(sim, speed))

CflSetListenerEnabled ==
    CflCall("setListenerEnabled", <<TRUE>>, TRUE,
            setListenerEnabled(sim, TRUE))

CflUpdate ==
    \E dt \in 1 .. MaxCflFrameUs :
        CflCall("update", <<dt>>, TRUE, update(sim, dt))

CflNext ==
    \/ CflSetWaveSpeed
    \/ CflSetListenerEnabled
    \/ CflUpdate

SpecCfl == WaveInit /\ [][CflNext]_vars

\* C15: in update(dt_frame), dt_frame > 0, at wave speed c > 0, the
\* sub-step count n is ceil(dt_frame / (0.6 dx / c)), that is the one
\* integer with (n-1) * 0.6 dx < c * dt_frame <= n * 0.6 dx; n >= 1; and
\* each of the n sub-steps executed, of length dt_frame / n, has
\* c * dt / dx <= 0.6.
C15_CflRespected ==
    (calls # <<>> /\ LastCall.op = "update") =>
        LET c == LastCall.pre.soundSpeed
            dtFrame == LastCall.args[1]
            n == NumSteps(dtFrame, c)
        IN  /\ n >= 1
            /\ (n - 1) * CFL_SAFETY * dx < c * dtFrame * 1000
            /\ c * dtFrame * 1000 <= n * CFL_SAFETY * dx
            /\ Cfl(<<dtFrame, n>>, c) <= CFL_SAFETY
            /\ LastCall.pre.listenerEnabled =>
                  Len(sim.listenerSampleBuffer) = n

\* A frame of several sub-steps at a speed other than the default, each
\* sub-step seen by the listener.
C15_Witness ==
    /\ calls # <<>>
    /\ LastCall.op = "update"
    /\ LastCall.pre.soundSpeed > CtorSoundSpeed
    /\ LastCall.pre.listenerEnabled
    /\ NumSteps(LastCall.args[1], LastCall.pre.soundSpeed) >= 3
    /\ Len(sim.listenerSampleBuffer) >= 3

----------------------------------------------------------------------------
(* SpecGpu: frames on a GPU that can stop working *)

MaxGpuOps == 4

\* All three fields have their width * height cells.
FieldsIntact(st) ==
    /\ DOMAIN st.pressure = Cells
    /\ DOMAIN st.pressurePrev = Cells
    /\ DOMAIN st.pressureNext = Cells

\* A call on a simulation whose fields have their cells.  A call made
\* after a field has lost them indexes outside it; the model does not
\* follow the program there.
GpuCall(op, args, result, after) ==
    /\ Len(calls) < MaxGpuOps
    /\ FieldsIntact(sim)
    /\ sim' = after
    /\ calls' = Append(calls, [op |-> op, args |-> args, result |-> result,
                               pre |-> sim])
    /\ WaveOnly

GpuUpdate ==
    \E dt \in FrameDts : GpuCall("update", <<dt>>, TRUE, update(sim, dt))

GpuAddPressureSource ==
    \E a \in {<<2, 1, 1000, 1>>, <<3, 2, 1000, 2>>} :
        GpuCall("addPressureSource", a, TRUE,
                addPressureSource(sim, a[1], a[2], a[3], a[4]))

GpuSetGPUEnabled ==
    \E enabled \in BOOLEAN :
        GpuCall("setGPUEnabled", <<enabled>>, TRUE,
                setGPUEnabled(sim, enabled))

GpuSetListenerEnabled ==
    GpuCall("setListenerEnabled", <<TRUE>>, TRUE,
            setListenerEnabled(sim, TRUE))

\* The device stops working (no call of the program).
GpuDeviceFails ==
    /\ sim.metalAvailable
    /\ ~sim.metalFrameFails
    /\ sim' = [sim EXCEPT !.metalFrameFails = TRUE]
    /\ UNCHANGED calls
    /\ WaveOnly

GpuNext ==
    \/ GpuUpdate
    \/ GpuAddPressureSource
    \/ GpuSetGPUEnabled
    \/ GpuSetListenerEnabled
    \/ GpuDeviceFails

SpecGpu == WaveInit /\ [][GpuNext]_vars

\* The frame of the last call was given to the GPU and ended in an error.
GpuFrameFailed ==
    /\ calls # <<>>
    /\ LastCall.op = "update"
    /\ LastCall.pre.useGPU
    /\ LastCall.pre.metalAvailable
    /\ LastCall.pre.metalFrameFails

\* C16: a simulation whose GPU backend failed to initialise has its GPU
\* flag clear; and after an update() whose GPU frame failed, the GPU flag
\* is clear, the fields have W * H cells and hold what the CPU sub-steps
\* of that frame give.
C16_GpuFailureFallsBack ==
    /\ ~sim.metalAvailable => ~sim.useGPU
    /\ GpuFrameFailed =>
          /\ ~sim.useGPU
          /\ FieldsIntact(sim)
          /\ LET cpu == update([LastCall.pre EXCEPT !.useGPU = FALSE],
                               LastCall.args[1])
             IN  /\ sim.pressure = cpu.pressure
                 /\ sim.pressurePrev = cpu.pressurePrev
                 /\ sim.listenerSampleBuffer = cpu.listenerSampleBuffer

----------------------------------------------------------------------------
(* SimulationEngine: the main loop that steps the simulation and feeds the *)
(* listener's samples to the AudioOutput.  Frame times are in 1/100 ms.    *)

\* simulationTimeBudget(0.014): 14 ms
simulationTimeBudget == 1400
\* How long update() is measured to take: well inside the budget, exactly
\* the budget, over the budget.
MeasuredFrameTimes == {500, simulationTimeBudget, 1500}
\* fixedDt * timeScale handed to WaveSimulation::update, scaled, in us.
FixedDtUs == 10
MaxEngineFrames == 4
MaxEngineInputs == 1
\* The history counts the skipped iterations in a row up to MaxSkips.
MaxSkips == 20
\* The click the input handler turns into addPressureSource.
EngineImpulse == <<2, 1, 1000, 1>>

\* Sum of s[a..b].
RECURSIVE SumRange(_, _, _)
SumRange(s, a, b) == IF a > b THEN 0 ELSE s[a] + SumRange(s, a + 1, b)

\* The m output samples made of the frame's pressures: linear interpolation
\* between consecutive values when there are fewer than m of them, averages
\* of contiguous chunks otherwise.
Resample(pressures, m) ==
    LET n == Len(pressures)
    IN  IF n = 0 THEN <<>>
        ELSE IF n < m
        THEN [k \in 1..m |->
                LET lo == ((k - 1) * n) \div m + 1
                    hi == Min(lo + 1, n)
                    frac == ((k - 1) * n) % m
                IN  pressures[lo] + Quot((pressures[hi] - pressures[lo]) * frac, m)]
        ELSE [k \in 1..m |->
                LET a == ((k - 1) * n) \div m + 1
                    b == (k * n) \div m
                IN  Quot(SumRange(pressures, a, b), b - a + 1)]

\* Pushing out[k..] into the ring, the oldest unread sample making room.
\* st is [buf, w, r, fault, fresh, pushed].
RECURSIVE PushLoop(_, _, _)
PushLoop(k, out, st) ==
    IF k > Len(out) \/ st.fault THEN st
    ELSE IF st.w >= Len(st.buf) THEN [st EXCEPT !.fault = TRUE]
    ELSE
      LET w2 == (st.w + 1) % Len(st.buf)
          r2 == IF w2 = st.r THEN (st.r + 1) % Len(st.buf) ELSE st.r
      IN  PushLoop(k + 1, out,
                   [buf |-> [st.buf EXCEPT ![st.w + 1] = out[k]],
                    w |-> w2, r |-> r2, fault |-> FALSE,
                    fresh |-> IF w2 = st.r
                              THEN (st.fresh \cup {st.w}) \ {st.r}
                              ELSE st.fresh \cup {st.w},
                    pushed |-> st.pushed + 1])

\* AudioOutput::submitPressureSamples(samples, timeScale) on the ring st.
submitPressureSamples(samples, st) ==
    LET m == RoundDiv(sampleRate, SimulationFrameRate)
    IN  PushLoop(1, Resample(samples, m), st)

\* The ring as the simulation thread finds it, nothing pushed yet.
RingState ==
    [buf |-> audioBuffer, w |-> bufferWritePos, r |-> bufferReadPos,
     fault |-> FALSE, fresh |-> fresh, pushed |-> 0]

\* SimulationEngine::run: the frame's update runs when the last one was
\* inside the budget.
EngineFrameRunsAlwaysBug(lastFrameTime) == TRUE
EngineFrameRuns(lastFrameTime) == lastFrameTime < simulationTimeBudget

\* SimulationEngine::update after its simulation->update(), which left the
\* simulation s1: [sim, ring] after the samples are handed over.
EngineSubmit(s1, ring) ==
    IF s1.listenerEnabled
    THEN [sim |-> getListenerSamples(s1),
          ring |-> submitPressureSamples(s1.listenerSampleBuffer, ring)]
    ELSE [sim |-> s1, ring |-> ring]

\* A step of the engine leaves the lone AudioSource and the call history alone.
EngineOnly == UNCHANGED <<srcVars, calls, ctrlVars, mtxVars, inVars>>

\* SimulationEngine::initializeSubsystems: the AudioOutput is created,
\* initialize(48000) is called on it and, when that succeeds, start().
EngineInitialize(ok, okStart) ==
    /\ EngineOnly
    /\ ~engine.initialized
    /\ engine' = [engine EXCEPT !.initialized = TRUE]
    /\ sampleRate' = CtorSampleRate
    /\ audioBuffer' = Resize(audioBuffer, CtorSampleRate)
    /\ device' = ok
    /\ deviceInitialized' = ok
    /\ deviceStarted' = (ok /\ okStart)
    /\ UNCHANGED <<sim, bufferWritePos, bufferReadPos, previousPressure, muted,
                   orphanStarted, memFault, submits, fresh, cb>>

\* lastFrameTime *= 0.95 of a skipped iteration.
DecayedFrameTimeKeepBug(lastFrameTime) == lastFrameTime
DecayedFrameTime(lastFrameTime) == (lastFrameTime * 95) \div 100

\* One iteration of the loop of SimulationEngine::run; measured is how long
\* update() took when it ran, count the number of iterations the history
\* then shows.
EngineIteration(measured, count) ==
    /\ EngineOnly
    /\ engine.initialized
    /\ ~memFault
    /\ \E runs \in {EngineFrameRuns(engine.lastFrameTime)} :
       \E s1 \in {IF runs THEN update(sim, FixedDtUs) ELSE sim} :
       \E out \in {IF runs THEN EngineSubmit(s1, RingState)
                   ELSE [sim |-> sim, ring |-> RingState]} :
       \E pushed \in {out.ring.pushed} :
           /\ sim' = out.sim
           /\ audioBuffer' = out.ring.buf
           /\ bufferWritePos' = out.ring.w
           /\ bufferReadPos' = out.ring.r
           /\ memFault' = out.ring.fault
           /\ fresh' = out.ring.fresh
           /\ engine' =
                [engine EXCEPT
                   !.lastFrameTime = IF runs THEN measured
                                     ELSE DecayedFrameTime(engine.lastFrameTime),
                   !.frames = count,
                   !.skips = IF runs THEN 0
                             ELSE Min(engine.skips + 1, MaxSkips),
                   !.tick = ~engine.tick,
                   !.frame = [lastFrameTime |-> engine.lastFrameTime,
                              hasListener |-> sim.listenerEnabled,
                              pushed |-> pushed, skips |-> engine.skips],
                   !.window = IF Len(engine.window) < SimulationFrameRate
                              THEN Append(engine.window, pushed)
                              ELSE Append(Tail(engine.window), pushed)]
    /\ UNCHANGED <<sampleRate, previousPressure, muted, deviceInitialized,
                   device, deviceStarted, orphanStarted, submits, cb>>

\* An iteration of the loop, the first MaxEngineFrames of them.
EngineRunFrame(measured) ==
    /\ engine.frames < MaxEngineFrames
    /\ EngineIteration(measured, engine.frames + 1)

\* An input event between two frames.
EngineInput(after) ==
    /\ EngineOnly
    /\ engine.initialized
    /\ engine.inputs < MaxEngineInputs
    /\ engine' = [engine EXCEPT !.inputs = engine.inputs + 1]
    /\ sim' = after
    /\ UNCHANGED ringVars

\* SimulationController::handleToggleListener
EngineToggleListener ==
    EngineInput(setListenerEnabled(sim, ~sim.listenerEnabled))

\* A click: addPressureSource at the cursor.
EngineClick ==
    EngineInput(addPressureSource(sim, EngineImpulse[1], EngineImpulse[2],
                                  EngineImpulse[3], EngineImpulse[4]))

\* The device thread pulls samples while the loop runs.
EngineDeviceCallback ==
    /\ engine.initialized
    /\ \E n \in 1..MaxFrameCount : audioCallback(n)

EngineNext ==
    \/ \E ok \in BOOLEAN, okStart \in BOOLEAN : EngineInitialize(ok, okStart)
    \/ \E measured \in MeasuredFrameTimes : EngineRunFrame(measured)
    \/ EngineToggleListener
    \/ EngineClick
    \/ EngineDeviceCallback

SpecEngine == WaveInit /\ [][EngineNext]_vars

\* Samples a frame is meant to push: device rate over frame rate.
SamplesPerFrame == RoundDiv(sampleRate, SimulationFrameRate)

----------------------------------------------------------------------------
(* SimulationController: the interaction modes of SimulationState          *)

MaxCommands == 4

\* SimulationController::handleToggleHelp
handleToggleHelp(st) == [st EXCEPT !.showHelp = ~st.showHelp]

\* SimulationController::handleToggleObstacleMode
handleToggleObstacleMode(st) ==
    IF ~st.obstacleMode
    THEN [st EXCEPT !.obstacleMode = TRUE, !.listenerMode = FALSE,
                    !.sourceMode = FALSE]
    ELSE [st EXCEPT !.obstacleMode = FALSE]

\* SimulationController::handleToggleListenerMode
handleToggleListenerModeKeepBug(st) ==
    IF ~st.listenerMode
    THEN [st EXCEPT !.listenerMode = TRUE, !.sourceMode = FALSE]
    ELSE [st EXCEPT !.listenerMode = FALSE]
handleToggleListenerMode(st) ==
    IF ~st.listenerMode
    THEN [st EXCEPT !.listenerMode = TRUE, !.obstacleMode = FALSE,
                    !.sourceMode = FALSE]
    ELSE [st EXCEPT !.listenerMode = FALSE]

\* SimulationController::handleToggleSourceMode
handleToggleSourceMode(st) ==
    IF ~st.sourceMode
    THEN [st EXCEPT !.sourceMode = TRUE, !.obstacleMode = FALSE,
                    !.listenerMode = FALSE]
    ELSE [st EXCEPT !.sourceMode = FALSE]

\* SimulationController::processCommand: the case of command type, whose
\* handler leaves the state after.
processCommand(type, after) ==
    /\ Len(controller.commands) < MaxCommands
    /\ controller' = [state |-> after, before |-> controller.state,
                      commands |-> Append(controller.commands, type)]
    /\ UNCHANGED <<srcVars, ringVars, waveVars, engVars, mtxVars, inVars>>

CtrlToggleHelp ==
    processCommand("TOGGLE_HELP", handleToggleHelp(controller.state))
CtrlToggleObstacleMode ==
    processCommand("TOGGLE_OBSTACLE_MODE",
                   handleToggleObstacleMode(controller.state))
CtrlToggleListenerMode ==
    processCommand("TOGGLE_LISTENER_MODE",
                   handleToggleListenerMode(controller.state))
CtrlToggleSourceMode ==
    processCommand("TOGGLE_SOURCE_MODE",
                   handleToggleSourceMode(controller.state))

ControllerNext ==
    \/ CtrlToggleHelp
    \/ CtrlToggleObstacleMode
    \/ CtrlToggleListenerMode
    \/ CtrlToggleSourceMode

SpecController == AudioInit /\ [][ControllerNext]_vars

\* How many of the three modes are on.
ModesOn(st) ==
    (IF st.obstacleMode THEN 1 ELSE 0) + (IF st.listenerMode THEN 1 ELSE 0)
        + (IF st.sourceMode THEN 1 ELSE 0)

\* The last command processed.
LastCommand == controller.commands[Len(controller.commands)]

\* C18: after any sequence of TOGGLE_OBSTACLE_MODE, TOGGLE_LISTENER_MODE
\* and TOGGLE_SOURCE_MODE commands at most one of obstacleMode,
\* listenerMode and sourceMode is true; a toggle inverts its own mode, and
\* when that turns it on the other two are off.
C18_ModesExclusive ==
    /\ ModesOn(controller.state) <= 1
    /\ controller.commands # <<>> =>
          LET st == controller.state
              pre == controller.before
          IN  /\ LastCommand = "TOGGLE_OBSTACLE_MODE" =>
                    /\ st.obstacleMode = ~pre.obstacleMode
                    /\ st.obstacleMode => ~st.listenerMode /\ ~st.sourceMode
              /\ LastCommand = "TOGGLE_LISTENER_MODE" =>
                    /\ st.listenerMode = ~pre.listenerMode
                    /\ st.listenerMode => ~st.obstacleMode /\ ~st.sourceMode
              /\ LastCommand = "TOGGLE_SOURCE_MODE" =>
                    /\ st.sourceMode = ~pre.sourceMode
                    /\ st.sourceMode => ~st.obstacleMode /\ ~st.listenerMode

\* Listener mode has just been turned on while obstacle mode was on.
C18_Witness ==
    /\ controller.commands # <<>>
    /\ LastCommand = "TOGGLE_LISTENER_MODE"
    /\ controller.before.obstacleMode
    /\ controller.state.listenerMode
    /\ ~controller.state.obstacleMode

----------------------------------------------------------------------------
(* Specification SpecRegion: the calls that add pressure or move the       *)
(* active region: impulses, audio sources and their play state and         *)
(* position, clear and update.                                             *)

MaxRegionOps == 4
\* addPressureSource arguments: in the room, at the right wall, and with a
\* radius that is refused.
RegionImpulses == {<<2, 1, 1000, 1>>, <<width - 1, 2, 1000, 1>>, <<2, 1, 1000, 0>>}
\* AudioSource::setPosition arguments
RegionPositions == {<<1, 2>>, <<3, 1>>}

RegionCall(op, args, after) ==
    /\ Len(calls) < MaxRegionOps
    /\ sim' = after
    /\ calls' = Append(calls, [op |-> op, args |-> args, result |-> TRUE,
                               pre |-> sim])
    /\ WaveOnly

\* A call on the simulation's first audio source.
RegionSourceCall(op, args, src) ==
    /\ sim.audioSources # <<>>
    /\ RegionCall(op, args, [sim EXCEPT !.audioSources[1] = src])

RgnUpdate ==
    \E dt \in FrameDts : RegionCall("update", <<dt>>, update(sim, dt))
RgnAddPressureSource ==
    \E a \in RegionImpulses :
        RegionCall("addPressureSource", a,
                   addPressureSource(sim, a[1], a[2], a[3], a[4]))
RgnAddAudioSource ==
    /\ Len(sim.audioSources) < MaxSources
    /\ \E src \in NewSources :
          RegionCall("addAudioSource", <<src.x, src.y>>, addAudioSource(sim, src))
RgnSourcePlay ==
    RegionSourceCall("play", <<>>, play(sim.audioSources[1]))
RgnSourcePause ==
    RegionSourceCall("pause", <<>>, pause(sim.audioSources[1]))
RgnSourceSetPosition ==
    \E pos \in RegionPositions :
        RegionSourceCall("setPosition", pos,
                         setPosition(sim.audioSources[1], pos[1], pos[2]))
RgnClear == RegionCall("clear", <<>>, clear(sim))

RegionNext ==
    \/ RgnUpdate
    \/ RgnAddPressureSource
    \/ RgnAddAudioSource
    \/ RgnSourcePlay
    \/ RgnSourcePause
    \/ RgnSourceSetPosition
    \/ RgnClear

SpecRegion == WaveInit /\ [][RegionNext]_vars

\* The cell lies in the bounding box of the active region.
InActiveRegion(ar, c) ==
    /\ ar.minX <= CellX(c) /\ CellX(c) <= ar.maxX
    /\ ar.minY <= CellY(c) /\ CellY(c) <= ar.maxY

\* C19: whenever hasActivity is set, every cell outside the active
\* region's bounding box has current pressure 0.
C19_ZeroOutsideActiveRegion ==
    sim.activeRegion.hasActivity =>
        \A c \in Cells :
            ~InActiveRegion(sim.activeRegion, c) => sim.pressure[c] = 0

----------------------------------------------------------------------------
(* The cells an impulse touches *)

\* The last call was an addPressureSource that passed every check.
ValidImpulse ==
    /\ calls # <<>>
    /\ LastCall.op = "addPressureSource"
    /\ LastCall.args[1] \in 0 .. (width - 1)
    /\ LastCall.args[2] \in 0 .. (height - 1)
    /\ LastCall.args[3] > 0 /\ LastCall.args[3] <= 100000
    /\ LastCall.args[4] >= 1 /\ LastCall.args[4] <= 50

\* Cell c holds in all three fields what it held before the last call.
CellKept(c) ==
    /\ sim.pressure[c] = LastCall.pre.pressure[c]
    /\ sim.pressurePrev[c] = LastCall.pre.pressurePrev[c]
    /\ sim.pressureNext[c] = LastCall.pre.pressureNext[c]

\* C20: a valid addPressureSource(x, y, a, r) changes pressure only at
\* non-obstacle cells whose Euclidean distance from (x, y) is at most r:
\* every cell farther than r from the centre, and every obstacle cell,
\* keeps its value in all three fields.
C20_ImpulseWithinRadius ==
    ValidImpulse =>
        \A c \in Cells :
            \/ Dist2(c, LastCall.args[1], LastCall.args[2])
                   > LastCall.args[4] * LastCall.args[4]
            \/ sim.obstacles[c] = 1
            => CellKept(c)

\* C20 as the code has it: the cells changed lie in the square of offsets
\* -r..r around (x, y), corners included; every cell outside the square,
\* every obstacle cell and every cell of the outermost ring of the grid
\* keeps its value in all three fields, and no cell changes in the
\* previous or the next field.
C20_ImpulseWithinSquare ==
    ValidImpulse =>
        \A c \in Cells :
            /\ sim.pressurePrev[c] = LastCall.pre.pressurePrev[c]
            /\ sim.pressureNext[c] = LastCall.pre.pressureNext[c]
            /\ \/ ~InSquare(c, LastCall.args[1], LastCall.args[2], LastCall.args[4])
               \/ sim.obstacles[c] = 1
               \/ ~Interior(CellX(c), CellY(c))
               => CellKept(c)

\* A valid impulse has changed a corner of its square, farther than r from
\* the centre, with an obstacle cell inside the square.
C20_Witness ==
    /\ ValidImpulse
    /\ \E c \in Cells :
          /\ Dist2(c, LastCall.args[1], LastCall.args[2])
                 > LastCall.args[4] * LastCall.args[4]
          /\ sim.pressure[c] # LastCall.pre.pressure[c]
    /\ \E c \in Cells :
          /\ InSquare(c, LastCall.args[1], LastCall.args[2], LastCall.args[4])
          /\ Interior(CellX(c), CellY(c))
          /\ sim.obstacles[c] = 1

----------------------------------------------------------------------------
(* The active region from one call to the next *)

\* Region b covers region a: no bound has moved inwards.
RegionCovers(b, a) ==
    /\ b.minX <= a.minX /\ b.maxX >= a.maxX
    /\ b.minY <= a.minY /\ b.maxY >= a.maxY

\* C21: the active region never shrinks except through clear(): across any
\* call other than clear() made while hasActivity is set (each of them
\* reaches the region only through expandActiveRegion or
\* growActiveRegionForFrame), minX and minY do not increase, maxX and maxY
\* do not decrease, and hasActivity stays set.
C21_RegionNeverShrinks ==
    [][(sim.activeRegion.hasActivity /\ calls' # calls
            /\ calls'[Len(calls')].op # "clear")
        => /\ sim'.activeRegion.hasActivity
           /\ RegionCovers(sim'.activeRegion, sim.activeRegion)]_vars

\* An update() has grown, on both sides, a region that had activity.
C21_Witness ==
    /\ calls # <<>>
    /\ LastCall.pre.activeRegion.hasActivity
    /\ LastCall.op = "update"
    /\ sim.activeRegion.minX < LastCall.pre.activeRegion.minX
    /\ sim.activeRegion.maxX > LastCall.pre.activeRegion.maxX

----------------------------------------------------------------------------
(* What one getCurrentSample call consumes *)

\* Sum of the k samples that follow play head h, going round at the end.
RECURSIVE SumFrom(_, _, _)
SumFrom(sample, h, k) ==
    IF k = 0 THEN 0
    ELSE getSample(sample, h % getLength(sample))
             + SumFrom(sample, (h + 1) % getLength(sample), k - 1)

\* C22: one getCurrentSample(dt) call on a playing source, with
\* n = max(1, round(sample_rate * dt)), consumes exactly n samples when the
\* source loops (new head = (old head + n) mod length, summing on after a
\* wrap) and exactly min(n, length - head) samples when it does not, and
\* returns the average of the samples consumed scaled by the volume.
C22_SamplesConsumed ==
    (srcCall.op = "getCurrentSample" /\ srcCall.before.playing) =>
        LET before == srcCall.before
            n == srcCall.samplesPerStep
            length == getLength(before.sample)
            consumed == Len(srcCall.heads)
        IN  /\ IF before.loop
               THEN /\ consumed = n
                    /\ source.playbackPosition
                           = (before.playbackPosition + n) % length
               ELSE consumed = Min(n, length - before.playbackPosition)
            /\ srcCall.value =
                 IF consumed = 0 THEN 0
                 ELSE Quot(Quot(SumFrom(before.sample, before.playbackPosition,
                                        consumed), consumed)
                               * getAmplitude(before.volumeDb), 500)

----------------------------------------------------------------------------
(* The ring between its heads *)

\* The slots from the read head up to the write head, oldest first.
UnreadSlots(r, w, buf) ==
    [k \in 1 .. ((w - r + 2 * Len(buf)) % Len(buf)) |-> (r + k - 1) % Len(buf)]

\* The set of the elements of a sequence.
Range(s) == {s[k] : k \in 1..Len(s)}

\* The last n elements of s.
Suffix(s, n) == SubSeq(s, Len(s) - n + 1, Len(s))

\* C23: every unread sample sits in a slot from the read head up to the
\* write head, in the order the samples were submitted; a submit appends
\* its samples behind them and, when the write head catches the read head,
\* moves the read head one slot on, so that what is discarded is the oldest
\* unread sample.
C23_UnreadBetweenHeads ==
    [][/\ fresh' \subseteq
              Range(UnreadSlots(bufferReadPos', bufferWritePos', audioBuffer'))
       /\ (submits' # submits /\ ~memFault') =>
             LET old == UnreadSlots(bufferReadPos, bufferWritePos, audioBuffer)
                 new == UnreadSlots(bufferReadPos', bufferWritePos', audioBuffer')
                 written == UnreadSlots(bufferWritePos, bufferWritePos',
                                        audioBuffer)
                 kept == Min(Len(audioBuffer) - 1, Len(old) + Len(written))
             IN  new = Suffix(old \o written, kept)]_vars

----------------------------------------------------------------------------
(* Specification SpecMutex: the simulation thread and the device thread of  *)
(* one AudioOutput, a step of a thread at a time.  A method that takes      *)
(* bufferMutex is two steps, the lock_guard's construction and the body     *)
(* with the unlock at its end; initialize() takes no lock and is the steps  *)
(* of its body: the entry, the resize of audioBuffer, ma_device_init.       *)

MaxThreadOps == 4

\* A step of a thread leaves the objects other than the AudioOutput alone.
ThreadOnly == UNCHANGED <<srcVars, waveVars, engVars, ctrlVars, inVars>>

\* AudioOutput::initialize(sampleRate) is entered on the simulation thread.
MtxInitializeEnter(rate) ==
    /\ ThreadOnly
    /\ ~memFault
    /\ threads.sim = "idle"
    /\ threads.ops < MaxThreadOps
    /\ threads' = [threads EXCEPT !.sim = "resize", !.arg = rate,
                                  !.ops = @ + 1]
    /\ UNCHANGED ringVars

\* this->sampleRate = sampleRate; audioBuffer.resize(sampleRate, 0.0f);
\* A resize while the device thread is reading the vector is a data race,
\* whose outcome is anything, a memory fault included.
MtxInitializeResize ==
    /\ ThreadOnly
    /\ ~memFault
    /\ threads.sim = "resize"
    /\ sampleRate' = threads.arg
    /\ audioBuffer' = Resize(audioBuffer, threads.arg)
    /\ fresh' = {k \in fresh : k < threads.arg}
    /\ memFault' \in (IF threads.dev = "callback" THEN BOOLEAN ELSE {FALSE})
    /\ threads' = [threads EXCEPT !.sim = "device"]
    /\ UNCHANGED <<bufferWritePos, bufferReadPos, previousPressure, muted,
                   deviceInitialized, device, deviceStarted, orphanStarted,
                   submits, cb>>

\* ma_device_init and the rest of initialize(); ok is ma_device_init's
\* answer.  A device that was started keeps running.
MtxInitializeDevice(ok) ==
    /\ ThreadOnly
    /\ ~memFault
    /\ threads.sim = "device"
    /\ orphanStarted' = (orphanStarted \/ deviceStarted)
    /\ deviceStarted' = FALSE
    /\ device' = ok
    /\ deviceInitialized' = (deviceInitialized \/ ok)
    /\ threads' = [threads EXCEPT !.sim = "idle"]
    /\ UNCHANGED <<audioBuffer, bufferWritePos, bufferReadPos, sampleRate,
                   previousPressure, muted, memFault, submits, fresh, cb>>

\* AudioOutput::start() on the simulation thread.
MtxStart(ok) ==
    /\ threads.sim = "idle"
    /\ start(ok)

\* AudioOutput::stop() on the simulation thread; ma_device_stop returns
\* once the device thread is out of the callback.
MtxStop ==
    /\ threads.sim = "idle"
    /\ threads.dev = "idle"
    /\ stopDevice

\* std::lock_guard<std::mutex> lock(bufferMutex) of submitPressureSample.
MtxSubmitLock(pressure) ==
    /\ ThreadOnly
    /\ ~memFault
    /\ threads.sim = "idle"
    /\ threads.lock = "none"
    /\ threads.ops < MaxThreadOps
    /\ submits < MaxSubmits
    /\ threads' = [threads EXCEPT !.sim = "submit", !.lock = "sim",
                                  !.arg = pressure, !.ops = @ + 1]
    /\ UNCHANGED ringVars

\* The body of submitPressureSample and the lock_guard's destruction.
MtxSubmitBody ==
    /\ ThreadOnly
    /\ threads.sim = "submit"
    /\ submitPressureSampleBody(threads.arg)
    /\ threads' = [threads EXCEPT !.sim = "idle", !.lock = "none"]

\* std::lock_guard<std::mutex> lock(audio->bufferMutex) of audioCallback, on
\* the thread of a started device.
MtxCallbackLock(frameCount) ==
    /\ ThreadOnly
    /\ ~memFault
    /\ deviceStarted \/ orphanStarted
    /\ threads.dev = "idle"
    /\ threads.lock = "none"
    /\ threads' = [threads EXCEPT !.dev = "callback", !.lock = "dev",
                                  !.frameCount = frameCount]
    /\ UNCHANGED ringVars

\* The body of audioCallback and the lock_guard's destruction.
MtxCallbackBody ==
    /\ ThreadOnly
    /\ threads.dev = "callback"
    /\ audioCallbackBody(threads.frameCount)
    /\ threads' = [threads EXCEPT !.dev = "idle", !.lock = "none"]

MutexNext ==
    \/ \E rate \in SampleRates : MtxInitializeEnter(rate)
    \/ MtxInitializeResize
    \/ \E ok \in BOOLEAN : MtxInitializeDevice(ok)
    \/ \E ok \in BOOLEAN : MtxStart(ok)
    \/ MtxStop
    \/ \E p \in SubmitPressures : MtxSubmitLock(p)
    \/ MtxSubmitBody
    \/ \E n \in 1..MaxFrameCount : MtxCallbackLock(n)
    \/ MtxCallbackBody

SpecMutex == AudioInit /\ [][MutexNext]_vars

\* The steps in which a thread reads or writes audioBuffer, bufferWritePos
\* or bufferReadPos are the ones it takes from these positions.
SimInRing == threads.sim \in {"resize", "submit"}
DevInRing == threads.dev = "callback"

----------------------------------------------------------------------------
(* C24: whenever the simulation thread (in submitPressureSample or in       *)
(* initialize) or the device thread (in audioCallback) is about to access   *)
(* the ring buffer's storage or its heads, that thread holds bufferMutex,   *)
(* so the two threads are never in the ring at the same time.               *)

C24_RingUnderMutex ==
    /\ SimInRing => threads.lock = "sim"
    /\ DevInRing => threads.lock = "dev"
    /\ ~(SimInRing /\ DevInRing)

\* The part that holds: submitPressureSample and audioCallback exclude each
\* other.
C24_SubmitAndCallbackExclusive ==
    /\ threads.sim = "submit" => threads.lock = "sim"
    /\ DevInRing => threads.lock = "dev"
    /\ ~(threads.sim = "submit" /\ DevInRing)

\* initialize() resizes the vector while the device thread is in the
\* callback.
C24_ResizeDuringCallback == threads.sim = "resize" /\ DevInRing

----------------------------------------------------------------------------
(* Specification SpecInject: update() with up to two audio sources, one of  *)
(* them where an obstacle can be put, on the CPU path and on the GPU path.  *)

MaxInjectOps == 4
MaxInjectSources == 2

\* Sources handed to addAudioSource: the two of NewSources and one that
\* does not loop, at a cell an obstacle disk covers.
InjectNewSources == NewSources \cup {play(NewSource("burst", 3, 1, 0, FALSE))}

InjectCall(op, args, after) ==
    /\ Len(calls) < MaxInjectOps
    /\ sim' = after
    /\ calls' = Append(calls, [op |-> op, args |-> args, result |-> TRUE,
                               pre |-> sim])
    /\ WaveOnly

InjUpdate ==
    \E dt \in FrameDts :
        \E after \in {update(sim, dt)} : InjectCall("update", <<dt>>, after)
InjAddAudioSource ==
    /\ Len(sim.audioSources) < MaxInjectSources
    /\ \E src \in InjectNewSources :
          InjectCall("addAudioSource", <<src.x, src.y>>,
                     addAudioSource(sim, src))
InjAddObstacle ==
    \E d \in ObstacleDisks :
        InjectCall("addObstacle", d, addObstacle(sim, d[1], d[2], d[3]))
InjSetGPUEnabled ==
    \E enabled \in BOOLEAN :
        InjectCall("setGPUEnabled", <<enabled>>, setGPUEnabled(sim, enabled))
InjSourcePause ==
    /\ sim.audioSources # <<>>
    /\ InjectCall("pause", <<>>,
                  [sim EXCEPT !.audioSources[1] = pause(@)])

InjectNext ==
    \/ InjUpdate
    \/ InjAddAudioSource
    \/ InjAddObstacle
    \/ InjSetGPUEnabled
    \/ InjSourcePause

SpecInject == WaveInit /\ [][InjectNext]_vars

\* The sub-step dt of the frame the last call ran.
FrameDt(st, dtFrame) == <<dtFrame, NumSteps(dtFrame, st.soundSpeed)>>

\* What the pre-sampling loop of the GPU path makes of the sources of st:
\* [sources, perStep].
GpuPreSample(st, dtFrame) ==
    PreSample(st.audioSources, <<>>, st.obstacles, FrameDt(st, dtFrame), 0)

\* The solver after the first k of the frame's updateStep calls on the CPU.
CpuAfterSteps(st, dtFrame, k) ==
    LET dt == FrameDt(st, dtFrame)
    IN  StepLoop(st, dt, dt[2] - k)

\* s is a prefix of t.
IsPrefix(s, t) == Len(s) <= Len(t) /\ s = SubSeq(t, 1, Len(s))

\* In sub-step k (from 0), what the source loop of updateStep has added to
\* the field once it is past the first j sources is what the first entries
\* of the GPU path's list for that sub-step add, and those entries are the
\* ones the pre-sampling made from the first j sources.
SameInjections(st, dtFrame, k, j) ==
    LET dt == FrameDt(st, dtFrame)
        cpu == CpuAfterSteps(st, dtFrame, k)
        firstJ == SubSeq(cpu.audioSources, 1, j)
        cpuField == InjectSources([cpu EXCEPT !.audioSources = firstJ],
                                  dt, 1).pressure
        gpuData == PreSampleStep([sources |-> firstJ, data |-> <<>>],
                                 st.obstacles, dt, 1).data
    IN  /\ IsPrefix(gpuData, GpuPreSample(st, dtFrame).perStep[k + 1])
        /\ cpuField = InjectData(cpu.pressure, gpuData, 1)

\* C25: for the sources, the obstacle mask and the dt_frame of any update,
\* the pre-sampling loop of the GPU path gives for every sub-step the
\* injections the CPU path's updateStep makes in that sub-step, in the
\* same order, and leaves every source (play head and playing flag) as the
\* CPU path's numSteps updateStep calls leave it; the update that ran left
\* the sources so.
C25_PreSampleMatchesUpdateStep ==
    (calls # <<>> /\ LastCall.op = "update") =>
        LET st == LastCall.pre
            dtFrame == LastCall.args[1]
            n == NumSteps(dtFrame, st.soundSpeed)
            gpu == GpuPreSample(st, dtFrame)
        IN  /\ CpuAfterSteps(st, dtFrame, n).audioSources = gpu.sources
            /\ sim.audioSources = gpu.sources
            /\ Len(gpu.perStep) = n
            /\ \A k \in 0 .. (n - 1) :
                  /\ CpuAfterSteps(st, dtFrame, k + 1).audioSources
                        = PreSample(st.audioSources, <<>>, st.obstacles,
                                    FrameDt(st, dtFrame), n - k - 1).sources
                  /\ \A j \in 0 .. Len(st.audioSources) :
                        SameInjections(st, dtFrame, k, j)

\* An update on the GPU path with two playing sources, two sub-steps, one
\* source injecting and the other on an obstacle, and a source that reached
\* the end of its sample in the frame.
C25_Witness ==
    /\ calls # <<>>
    /\ LastCall.op = "update"
    /\ LastCall.pre.useGPU /\ LastCall.pre.metalAvailable
    /\ Len(LastCall.pre.audioSources) = 2
    /\ \A i \in 1 .. 2 : LastCall.pre.audioSources[i].playing
    /\ NumSteps(LastCall.args[1], LastCall.pre.soundSpeed) = 2
    /\ \E i \in 1 .. 2 :
          /\ Interior(sim.audioSources[i].x, sim.audioSources[i].y)
          /\ LastCall.pre.obstacles[index(sim.audioSources[i].x,
                                          sim.audioSources[i].y)] # 0
    /\ Len(GpuPreSample(LastCall.pre, LastCall.args[1]).perStep[1]) = 1
    /\ sim.audioSources # LastCall.pre.audioSources

----------------------------------------------------------------------------
(* Specification SpecEngineLive: the main loop without an end.  The loop   *)
(* of SimulationEngine::run iterates for as long as the window is open, so *)
(* an iteration that can be taken is taken: weak fairness on the           *)
(* iteration.  The history counts iterations up to MaxEngineFrames; the    *)
(* device thread leaves the loop's variables alone and is left out.        *)

\* How long update() is measured to take: inside the budget, a little over
\* it, more than twice the budget.
LongFrameTimes == {500, 1500, 3000}

EngineLoop(measured) ==
    EngineIteration(measured, Min(engine.frames + 1, MaxEngineFrames))

EngineLiveNext ==
    \/ \E ok \in BOOLEAN, okStart \in BOOLEAN : EngineInitialize(ok, okStart)
    \/ \E measured \in LongFrameTimes : EngineLoop(measured)
    \/ EngineToggleListener

\* The guard of the iteration: whenever it holds, an iteration changes the
\* state (the history's tick turns over).
LoopCanIterate == engine.initialized /\ ~memFault

\* Weak fairness of the iteration, with its guard written out where
\* WF_vars has ENABLED.
LoopKeepsIterating ==
    \/ []<>(~LoopCanIterate)
    \/ []<><<\E measured \in LongFrameTimes : EngineLoop(measured)>>_vars

SpecEngineLive ==
    /\ WaveInit
    /\ [][EngineLiveNext]_vars
    /\ LoopKeepsIterating

\* C26: frame skipping cannot starve the simulation: once the remembered
\* frame time is at or over the budget, the loop skips update() finitely
\* many times, the remembered time falling below the budget, and an
\* iteration that runs update() follows every run of skipped iterations.
C26_SkippingEnds ==
    /\ (engine.lastFrameTime >= simulationTimeBudget)
          ~> (engine.skips > 0 /\ engine.lastFrameTime < simulationTimeBudget)
    /\ (engine.skips > 0) ~> (engine.skips = 0)

\* update() has just run after ten or more skipped iterations.
C26_Witness ==
    /\ engine.frames > 0
    /\ engine.skips = 0
    /\ engine.frame.skips >= 10
    /\ engine.frame.lastFrameTime < simulationTimeBudget

----------------------------------------------------------------------------
(* C27: in every state reached by play, pause, resume, stop, setLoop and    *)
(* getCurrentSample, a playing source's play head is strictly less than     *)
(* the sample length, and a getCurrentSample on a playing source consumes   *)
(* at least one sample.                                                     *)

C27_PlayingHeadInSample ==
    /\ source.playing => source.playbackPosition < getLength(source.sample)
    /\ (srcCall.op = "getCurrentSample" /\ srcCall.before.playing)
          => Len(srcCall.heads) >= 1

\* The part that holds: a call other than resume() never leaves a playing
\* source with its head at the length.
C27_OnlyResumeBreaksIt ==
    (source.playing /\ source.playbackPosition >= getLength(source.sample))
        => \/ srcCall.op = "resume"
           \/ /\ srcCall.before.playing
              /\ srcCall.before.playbackPosition
                    >= getLength(srcCall.before.sample)

----------------------------------------------------------------------------
(* Specification SpecIds: audio sources added to and removed from the      *)
(* solver, each call with what it returned.  Every source added differs    *)
(* from the ones added before, so that a source is known by its fields.    *)

MaxIdOps == 5
MaxIdSources == 3

\* Sources handed to addAudioSource, one for each cell of a row.
IdNewSources == {play(NewSource("tick", x, 2, 0, TRUE)) : x \in 1 .. MaxIdSources}

\* The identifier addAudioSource returns: audioSources.size() before the
\* push_back.
addAudioSourceId(st) == Len(st.audioSources)

\* What getAudioSource returns for an identifier past the end.
nullptr == [sample |-> "nullptr"]

\* WaveSimulation::getAudioSource
getAudioSource(st, sourceId) ==
    IF sourceId < Len(st.audioSources) THEN st.audioSources[sourceId + 1]
    ELSE nullptr

IdCall(op, args, result, after) ==
    /\ Len(calls) < MaxIdOps
    /\ sim' = after
    /\ calls' = Append(calls, [op |-> op, args |-> args, result |-> result,
                               pre |-> sim])
    /\ WaveOnly

\* The sources handed to addAudioSource so far.
AddedSoFar ==
    {calls[k].args[1] : k \in {i \in 1 .. Len(calls) :
                                  calls[i].op = "addAudioSource"}}

IdAddAudioSource ==
    \E src \in IdNewSources \ AddedSoFar :
        IdCall("addAudioSource", <<src>>, addAudioSourceId(sim),
               addAudioSource(sim, src))

IdRemoveAudioSource ==
    \E sourceId \in 0 .. MaxIdSources :
        IdCall("removeAudioSource", <<sourceId>>, TRUE,
               removeAudioSource(sim, sourceId))

IdsNext ==
    \/ IdAddAudioSource
    \/ IdRemoveAudioSource

SpecIds == WaveInit /\ [][IdsNext]_vars

\* The addAudioSource calls whose source is still in the solver.
LiveAdds ==
    {k \in 1 .. Len(calls) :
        /\ calls[k].op = "addAudioSource"
        /\ \E i \in 1 .. Len(sim.audioSources) :
              sim.audioSources[i] = calls[k].args[1]}

\* C28: the identifier addAudioSource returned keeps identifying that
\* source until the source is removed: for every source still in the
\* solver, getAudioSource(id) is that source, and no two sources in the
\* solver were given the same identifier.
C28_IdentifierIsStable ==
    /\ \A k \in LiveAdds :
          getAudioSource(sim, calls[k].result) = calls[k].args[1]
    /\ \A k \in LiveAdds : \A l \in LiveAdds :
          calls[k].result = calls[l].result => k = l

\* The part that holds: the identifier names its source for as long as no
\* source before it has been removed.
C28_StableWithoutRemovals ==
    (\A i \in 1 .. Len(calls) :
        calls[i].op = "removeAudioSource" =>
            calls[i].args[1] >= Len(calls[i].pre.audioSources))
        => C28_IdentifierIsStable

----------------------------------------------------------------------------
(* Specification SpecPreset: the acoustic parameters of the solver, set by *)
(* preset and one at a time.                                               *)

MaxPresetOps == 4

\* setDamping arguments, in 1/10000: what the arrow keys reach from the
\* constructor's 0.997, and the value of a preset.
DampingValues == {9969, 9971, 9980}
\* setWallReflection arguments, in 1/100.
WallReflectionValues == {0, 50}

\* WaveSimulation::setDamping
setDamping(st, damp) == [st EXCEPT !.damping = damp]

\* WaveSimulation::setWallReflection
setWallReflection(st, reflection) == [st EXCEPT !.wallReflection = reflection]

PresetCall(op, args, after) ==
    /\ Len(calls) < MaxPresetOps
    /\ sim' = after
    /\ calls' = Append(calls, [op |-> op, args |-> args, result |-> TRUE,
                               pre |-> sim])
    /\ WaveOnly

PstApplyDampingPreset ==
    \E type \in PresetTypes :
        PresetCall("applyDampingPreset", <<type>>,
                   applyDampingPreset(sim, fromType(type)))
PstSetDamping ==
    \E damp \in DampingValues :
        PresetCall("setDamping", <<damp>>, setDamping(sim, damp))
PstSetWallReflection ==
    \E reflection \in WallReflectionValues :
        PresetCall("setWallReflection", <<reflection>>,
                   setWallReflection(sim, reflection))

PresetNext ==
    \/ PstApplyDampingPreset
    \/ PstSetDamping
    \/ PstSetWallReflection

SpecPreset == WaveInit /\ [][PresetNext]_vars

\* C29: in every reachable state the recorded preset agrees with the live
\* parameters: getCurrentPreset().getDamping() = getDamping() and
\* getCurrentPreset().getWallReflection() = getWallReflection().
C29_PresetMatchesParameters ==
    /\ sim.currentPreset.damping = sim.damping
    /\ sim.currentPreset.wallReflection = sim.wallReflection

\* The part that holds: right after applyDampingPreset, and before the
\* first setDamping or setWallReflection, they agree.
C29_AgreeUntilSetter ==
    (\A i \in 1 .. Len(calls) : calls[i].op = "applyDampingPreset")
        => C29_PresetMatchesParameters

----------------------------------------------------------------------------
(* Specification SpecInput: the InputHandler's left mouse button and       *)
(* cursor callbacks with the listener placed and enabled, no interaction   *)
(* mode on and no audio source, and the main loop collecting the pending   *)
(* commands for the controller.  Screen positions are in pixels.           *)

MaxInputOps == 5
\* The window, in pixels; the room's viewport fills it.
ScreenWidth == 20
ScreenHeight == 16
\* const double clickThreshold = 5.0
clickThreshold == 5

\* Where the cursor goes: the origin, 3 pixels from it, exactly 5 pixels
\* from it, 10 pixels from it, and outside the window.
CursorPositions == {<<0, 0>>, <<3, 0>>, <<3, 4>>, <<10, 0>>, <<30, 0>>}

\* CoordinateMapper::screenToGrid: the y axis is flipped, the cell is
\* clamped to the grid; a position outside the viewport gives false.
screenToGrid(screenX, screenY) ==
    LET fbYFlipped == ScreenHeight - screenY
    IN  IF \/ screenX < 0 \/ screenX > ScreenWidth
           \/ fbYFlipped < 0 \/ fbYFlipped > ScreenHeight
        THEN [ok |-> FALSE, gridX |-> 0, gridY |-> 0]
        ELSE [ok |-> TRUE,
              gridX |-> Max(0, Min((screenX * width) \div ScreenWidth,
                                   width - 1)),
              gridY |-> Max(0, Min((fbYFlipped * height) \div ScreenHeight,
                                   height - 1))]

\* The listener was placed and switched on before the events below.
InputInit ==
    /\ \E metalAvailable \in BOOLEAN :
          sim = setListenerEnabled(NewSimulation(metalAvailable), TRUE)
    /\ calls = <<>>
    /\ SourceIdle /\ RingObjInit /\ EngineIdle

\* An input event leaves the other objects alone.
InputOnly == UNCHANGED <<srcVars, ringVars, calls, engVars, ctrlVars, mtxVars>>

\* InputHandler::handleMouseButton(GLFW_MOUSE_BUTTON_LEFT, GLFW_PRESS);
\* captured is ImGui's WantCaptureMouse.
InPressLeft(captured) ==
    /\ InputOnly
    /\ input.ops < MaxInputOps
    /\ UNCHANGED sim
    /\ LET g == screenToGrid(input.cursorX, input.cursorY)
           distX == g.gridX - sim.listenerX
           distY == g.gridY - sim.listenerY
           onListener == /\ g.ok /\ sim.listenerEnabled
                         /\ distX * distX + distY * distY <= 10 * 10
           in1 == [input EXCEPT !.ops = @ + 1,
                                !.last = [op |-> "press", dragging |-> FALSE,
                                          queuedToggle |-> FALSE]]
       IN  input' =
             IF captured THEN in1
             ELSE [in1 EXCEPT
                     !.mousePressed = TRUE,
                     !.lastMouseX = input.cursorX,
                     !.lastMouseY = input.cursorY,
                     !.pressX = input.cursorX,
                     !.pressY = input.cursorY,
                     !.draggingListener = IF onListener THEN TRUE ELSE @,
                     !.pendingCommands =
                         IF g.ok /\ ~onListener
                         THEN Append(@, [type |-> "ADD_IMPULSE",
                                         x |-> g.gridX, y |-> g.gridY])
                         ELSE @]

\* InputHandler::handleMouseButton(GLFW_MOUSE_BUTTON_LEFT, GLFW_RELEASE)
InReleaseLeft(captured) ==
    /\ InputOnly
    /\ input.ops < MaxInputOps
    /\ UNCHANGED sim
    /\ LET distX == input.cursorX - input.lastMouseX
           distY == input.cursorY - input.lastMouseY
           \* sqrt(dx * dx + dy * dy) < clickThreshold
           click == distX * distX + distY * distY < clickThreshold * clickThreshold
           toggle == ~captured /\ input.draggingListener /\ click
           in1 == [input EXCEPT !.ops = @ + 1,
                                !.last = [op |-> "release",
                                          dragging |-> (~captured
                                              /\ input.draggingListener),
                                          queuedToggle |-> toggle]]
       IN  input' =
             IF captured THEN in1
             ELSE [in1 EXCEPT
                     !.pendingCommands =
                         IF toggle
                         THEN Append(@, [type |-> "TOGGLE_LISTENER",
                                         x |-> 0, y |-> 0])
                         ELSE @,
                     !.mousePressed = FALSE,
                     !.draggingListener = FALSE]

\* InputHandler::handleCursorPos(xpos, ypos): the cursor has moved there.
InHandleCursorPos(xpos, ypos) ==
    /\ InputOnly
    /\ input.ops < MaxInputOps
    /\ <<xpos, ypos>> # <<input.cursorX, input.cursorY>>
    /\ UNCHANGED sim
    /\ LET g == screenToGrid(xpos, ypos)
       IN  input' =
             [input EXCEPT
                !.ops = @ + 1,
                !.cursorX = xpos, !.cursorY = ypos,
                !.lastMouseX = xpos, !.lastMouseY = ypos,
                !.last = [op |-> "cursorPos", dragging |-> input.draggingListener,
                          queuedToggle |-> FALSE],
                !.pendingCommands =
                    IF input.draggingListener /\ g.ok
                    THEN Append(@, [type |-> "SET_LISTENER_POSITION",
                                    x |-> g.gridX, y |-> g.gridY])
                    ELSE @]

\* SimulationController::processCommand on the commands cmds[k..].
RECURSIVE ProcessCommands(_, _, _)
ProcessCommands(st, cmds, k) ==
    IF k > Len(cmds) THEN st
    ELSE LET c == cmds[k]
             next ==
                CASE c.type = "SET_LISTENER_POSITION" ->
                        setListenerEnabled(
                            setListenerPosition(st, c.x, c.y), TRUE)
                  [] c.type = "TOGGLE_LISTENER" ->
                        setListenerEnabled(st, ~st.listenerEnabled)
                  [] OTHER ->
                        addPressureSource(st, c.x, c.y, EngineImpulse[3],
                                          EngineImpulse[4])
         IN  ProcessCommands(next, cmds, k + 1)

\* InputHandler::collectCommands and the controller's processing of what
\* it returned, once a frame.
InCollectCommands ==
    /\ InputOnly
    /\ input.pendingCommands # <<>>
    /\ sim' = ProcessCommands(sim, input.pendingCommands, 1)
    /\ input' = [input EXCEPT !.pendingCommands = <<>>]

InputNext ==
    \/ \E captured \in BOOLEAN : InPressLeft(captured)
    \/ \E captured \in BOOLEAN : InReleaseLeft(captured)
    \/ \E pos \in CursorPositions : InHandleCursorPos(pos[1], pos[2])
    \/ InCollectCommands

SpecInput == InputInit /\ [][InputNext]_vars

\* The square of the distance from where the button was pressed to where
\* the cursor is.
MovedFromPress2 ==
    (input.cursorX - input.pressX) * (input.cursorX - input.pressX)
        + (input.cursorY - input.pressY) * (input.cursorY - input.pressY)

\* C30: a release that ends a press on the listener queues ToggleListener
\* only when the cursor is less than 5 pixels from where the button was
\* pressed; after a movement of 5 pixels or more the release queues no
\* toggle.
C30_ToggleOnlyNearPress ==
    (input.last.op = "release" /\ input.last.dragging) =>
        (input.last.queuedToggle
            => MovedFromPress2 < clickThreshold * clickThreshold)

\* What the code does: every release that ends a press on the listener
\* queues the toggle, however far the cursor went.
C30_ReleaseAlwaysToggles ==
    (input.last.op = "release" /\ input.last.dragging) =>
        input.last.queuedToggle

=============================================================================
